---- MODULE Spec2Model ----
(***************************************************************************)
(* Model of matrix/kaldi-vector.cc: the owning Vector<Real>, the strided   *)
(* VectorBase<Real> view, their lifecycle (Init / Resize / Destroy / Swap  *)
(* / RemoveElement), the binary Read / Write wire format, and the          *)
(* dimension checks of the arithmetic operations.                          *)
(*                                                                         *)
(* Memory is a heap of allocations; heap[a] is the sequence of cells of    *)
(* the allocation at address a, and <<>> when a is not allocated.  A       *)
(* vector is the record [data_, dim_, stride_] of VectorBase.  Element     *)
(* values are small naturals: a double holds every value of 0..MaxVal, a   *)
(* float only the even ones, and a double converted to float loses its     *)
(* low-order unit.                                                         *)
(***************************************************************************)
EXTENDS Integers, Sequences, FiniteSets, TLC

\* ---------------------------------------------------------------- bounds
MaxDim == 2        \* largest vector length requested
MaxVal == 2        \* largest element value
MaxStored == 2     \* most vectors held in the stream at once
MaxMatDim == 2     \* largest matrix row / column count
MaxLen == 5        \* longest vector handed to a reduction
MaxStride == 2     \* largest element step of a vector handed to an operation
MaxDraw == 4       \* the uniform draws are the multiples of 1 / MaxDraw
MaxPieces == 4     \* most pieces a text file is put together from
IntBits == 8       \* width of MatrixIndexT (32 in the program)
ClampLen == 3      \* longest vector handed to ApplyFloor / ApplyCeiling
ExpScale == 8      \* Exp is counted in units of 2^-ExpScale
OnesLen == 2       \* length of the vector of ones (64 in the program)

\* -------------------------------------------------------------- constants
NULL == 0
Vectors == {"a", "b", "d"}
\* "a" and "b" are Vector<float>, "d" is Vector<double>
KindOf(v) == IF v = "d" THEN "D" ELSE "F"
OtherReal(k) == IF k = "F" THEN "D" ELSE "F"
Vals(k) == IF k = "F" THEN {x \in 0..MaxVal : x % 2 = 0} ELSE 0..MaxVal
\* aligned allocator: as many addresses as the vectors plus two temporaries
Addrs == 1..(Cardinality(Vectors) + 2)
ResizeTypes == {"kSetZero", "kUndefined", "kCopyData"}

VARIABLES vec, heap, stream, written, last, call
vars == <<vec, heap, stream, written, last, call>>

\* ------------------------------------------------------------ memory ops
\* implicit conversion of an element to Real = k (double -> float rounds)
Convert(k, x) == IF k = "F" THEN 2 * (x \div 2) ELSE x

\* KALDI_MEMALIGN: the lowest free address, NULL when none is left
KALDI_MEMALIGN(hp) ==
  IF \E a \in Addrs : hp[a] = <<>>
  THEN CHOOSE a \in Addrs : hp[a] = <<>> /\ \A b \in Addrs : hp[b] = <<>> => a <= b
  ELSE NULL

\* KALDI_MEMALIGN_FREE
KALDI_MEMALIGN_FREE(hp, a) == [hp EXCEPT ![a] = <<>>]

\* a memcpy that stops one element short
memcpy_short(dst, src, n) == [i \in 1..Len(dst) |-> IF i < n THEN src[i] ELSE dst[i]]

\* memcpy(dst, src, n * sizeof(Real)) on cell sequences
memcpy(dst, src, n) == [i \in 1..Len(dst) |-> IF i <= n THEN src[i] ELSE dst[i]]

\* memset(buf + from, 0, n * sizeof(Real))
memset(buf, from, n) ==
  [i \in 1..Len(buf) |-> IF i > from /\ i <= from + n THEN 0 ELSE buf[i]]

\* the logical elements (*this)(0 .. dim_-1): data_[i * stride_]
Elems(r, hp) == [i \in 1..r.dim_ |-> hp[r.data_][(i - 1) * r.stride_ + 1]]

Res(r, hp, err) == [r |-> r, hp |-> hp, err |-> err]

\* ------------------------------------------------------------- lifecycle
\* an Init that leaves stride_ as it found it
Vector_Init_keeps_stride(r, hp, dim, g) ==
  IF ~(dim >= 0) THEN Res(r, hp, "assert")
  ELSE IF dim = 0 THEN Res([r EXCEPT !.dim_ = 0, !.data_ = NULL], hp, "ok")
  ELSE LET data == KALDI_MEMALIGN(hp) IN
       IF data # NULL
       THEN Res([r EXCEPT !.data_ = data, !.dim_ = dim],
                [hp EXCEPT ![data] = [i \in 1..dim |-> g[i]]], "ok")
       ELSE Res(r, hp, "bad_alloc")

\* Vector<Real>::Init(dim); g is what the fresh allocation happens to hold
Vector_Init(r, hp, dim, g) ==
  LET r1 == [r EXCEPT !.stride_ = 1] IN
  IF ~(dim >= 0) THEN Res(r1, hp, "assert")
  ELSE IF dim = 0 THEN Res([r1 EXCEPT !.dim_ = 0, !.data_ = NULL], hp, "ok")
  ELSE LET data == KALDI_MEMALIGN(hp) IN
       IF data # NULL
       THEN Res([r1 EXCEPT !.data_ = data, !.dim_ = dim],
                [hp EXCEPT ![data] = [i \in 1..dim |-> g[i]]], "ok")
       ELSE Res(r1, hp, "bad_alloc")

\* a Destroy that frees the block and keeps the pointer
Vector_Destroy_dangling(r, hp) ==
  Res([r EXCEPT !.dim_ = 0],
      IF r.data_ # NULL THEN KALDI_MEMALIGN_FREE(hp, r.data_) ELSE hp, "ok")

\* Vector<Real>::Destroy()
Vector_Destroy(r, hp) ==
  Res([r EXCEPT !.data_ = NULL, !.dim_ = 0],
      IF r.data_ # NULL THEN KALDI_MEMALIGN_FREE(hp, r.data_) ELSE hp, "ok")

\* VectorBase<Real>::SetZero(): memset(data_, 0, dim_ * sizeof(Real))
VectorBase_SetZero(r, hp) ==
  IF r.dim_ = 0 \/ r.data_ = NULL THEN hp
  ELSE [hp EXCEPT ![r.data_] = memset(@, 0, r.dim_)]

\* a Swap that exchanges data_ only
Vector_Swap_data_only(r, o) ==
  [r |-> [r EXCEPT !.data_ = o.data_], o |-> [o EXCEPT !.data_ = r.data_]]

\* Vector<Real>::Swap(other): data_ and dim_ are exchanged
Vector_Swap(r, o) ==
  [r |-> [r EXCEPT !.data_ = o.data_, !.dim_ = o.dim_],
   o |-> [o EXCEPT !.data_ = r.data_, !.dim_ = r.dim_]]

\* Vector<Real>::Resize, the part after the kCopyData block
ResizeTail(r, hp, dim, rt, g) ==
  IF r.data_ # NULL /\ r.dim_ = dim
  THEN Res(r, IF rt = "kSetZero" THEN VectorBase_SetZero(r, hp) ELSE hp, "ok")
  ELSE LET Zeroed(n) ==
             IF n.err # "ok" THEN n
             ELSE Res(n.r, IF rt = "kSetZero" THEN VectorBase_SetZero(n.r, n.hp) ELSE n.hp, "ok")
           Inited(d) == Zeroed(Vector_Init(d.r, d.hp, dim, g))
       IN Inited(IF r.data_ # NULL THEN Vector_Destroy(r, hp) ELSE Res(r, hp, "ok"))

\* the base-class state a constructor starts from
EmptyBase == [data_ |-> NULL, dim_ |-> 0, stride_ |-> 0]

\* Vector<Real> tmp(dim, resize_type): Resize on the empty base
NewVector(hp, dim, rt, g) == ResizeTail(EmptyBase, hp, dim, rt, g)

\* Vector<Real>::Resize(dim, resize_type)
Vector_Resize(r, hp, dim, rt, g) ==
  IF rt = "kCopyData" /\ ~(r.data_ = NULL \/ dim = 0)
  THEN IF r.dim_ = dim THEN Res(r, hp, "ok")
       ELSE LET \* tmp goes out of scope, deleting what was in *this
                Swapped(sw, hp1) == Res(sw.o, Vector_Destroy(sw.r, hp1).hp, "ok")
                Copied(t) ==
                  IF t.err # "ok" THEN Res(r, hp, t.err)
                  ELSE Swapped(Vector_Swap(t.r, r),
                               [t.hp EXCEPT ![t.r.data_] =
                                  IF dim > r.dim_
                                  THEN memset(memcpy(@, hp[r.data_], r.dim_),
                                              r.dim_, dim - r.dim_)
                                  ELSE memcpy(@, hp[r.data_], dim)])
            IN Copied(NewVector(hp, dim, "kUndefined", g))
  ELSE ResizeTail(r, hp, dim, IF rt = "kCopyData" THEN "kSetZero" ELSE rt, g)

\* the loop of RemoveElement: data[(j-1) * stride] = data[j * stride]
RECURSIVE RemoveLoop(_, _, _, _)
RemoveLoop(cells, j, dim, stride) ==
  IF j < dim
  THEN RemoveLoop([cells EXCEPT ![(j - 1) * stride + 1] = cells[j * stride + 1]],
                  j + 1, dim, stride)
  ELSE cells

\* a RemoveElement whose bound check admits i == dim_
Vector_RemoveElement_le(r, hp, i) ==
  IF ~(i <= r.dim_) THEN Res(r, hp, "assert")
  ELSE Res([r EXCEPT !.dim_ = r.dim_ - 1],
           IF r.data_ = NULL THEN hp
           ELSE [hp EXCEPT ![r.data_] = RemoveLoop(@, i + 1, r.dim_, r.stride_)], "ok")

\* Vector<Real>::RemoveElement(i)
Vector_RemoveElement(r, hp, i) ==
  IF ~(i < r.dim_) THEN Res(r, hp, "assert")
  ELSE Res([r EXCEPT !.dim_ = r.dim_ - 1],
           [hp EXCEPT ![r.data_] = RemoveLoop(@, i + 1, r.dim_, r.stride_)], "ok")

\* ------------------------------------------------------ floating point
\* std::numeric_limits<Real>::infinity() and quiet_NaN(), outside the
\* range of every number the model's streams can spell
Infinity == 10 ^ (MaxPieces + 2)
NaN == Infinity + 1
IsFinite(x) == x > -Infinity /\ x < Infinity

\* Real arithmetic: a result is rounded to MantBits significant bits (to
\* nearest, ties to even) and overflows to an infinity above FltMax.
MantBits == 3
MaxExp == 2
FltMax == (2 ^ MantBits - 1) * 2 ^ MaxExp
HUGE_VAL == Infinity

\* the spacing of the representable numbers around a >= 0
RECURSIVE Ulp(_, _)
Ulp(a, u) == IF a < 2 ^ MantBits * u THEN u ELSE Ulp(a, 2 * u)
RoundAbs(a, u) ==
  IF 2 * (a % u) > u \/ (2 * (a % u) = u /\ (a \div u) % 2 = 1)
  THEN (a \div u + 1) * u
  ELSE (a \div u) * u
\* the Real nearest to the exact result x
Fl(x) ==
  IF x = NaN \/ x >= Infinity \/ x <= -Infinity THEN x
  ELSE IF x >= 0
  THEN (IF RoundAbs(x, Ulp(x, 1)) > FltMax THEN Infinity ELSE RoundAbs(x, Ulp(x, 1)))
  ELSE (IF RoundAbs(-x, Ulp(-x, 1)) > FltMax THEN -Infinity ELSE -RoundAbs(-x, Ulp(-x, 1)))

IsInf(x) == x = Infinity \/ x = -Infinity
Sign(x) == IF x < 0 THEN -1 ELSE IF x > 0 THEN 1 ELSE 0
\* x + y and x * y in Real
FAdd(x, y) ==
  IF x = NaN \/ y = NaN \/ (IsInf(x) /\ IsInf(y) /\ x # y) THEN NaN
  ELSE IF IsInf(x) THEN x
  ELSE IF IsInf(y) THEN y
  ELSE Fl(x + y)
FMul(x, y) ==
  IF x = NaN \/ y = NaN \/ (IsInf(x) /\ y = 0) \/ (IsInf(y) /\ x = 0) THEN NaN
  ELSE IF IsInf(x) \/ IsInf(y) THEN Sign(x) * Sign(y) * Infinity
  ELSE Fl(x * y)
\* std::abs, and the comparisons, which are false when an operand is NaN
FAbs(x) == IF x = NaN THEN NaN ELSE IF x < 0 THEN -x ELSE x
FLess(x, y) == x # NaN /\ y # NaN /\ x < y
FGeq(x, y) == x # NaN /\ y # NaN /\ x >= y
\* the largest r >= 0 with r^q <= a
Root(a, q) == CHOOSE r \in 0..a : r ^ q <= a /\ (r + 1) ^ q > a
\* std::sqrt
FSqrt(x) ==
  IF x = NaN \/ x < 0 THEN NaN
  ELSE IF x = Infinity THEN Infinity
  ELSE Fl(Root(x, 2))
\* pow(x, p) for an integer p
FPow(x, p) ==
  IF p = 0 THEN 1
  ELSE IF x = NaN THEN NaN
  ELSE IF p > 0
  THEN (IF IsInf(x) THEN (IF x < 0 /\ p % 2 = 0 THEN Infinity ELSE x)
        ELSE IF x >= 0 \/ p % 2 = 0 THEN Fl((IF x < 0 THEN -x ELSE x) ^ p)
        ELSE -Fl((-x) ^ p))
  ELSE (IF IsInf(x) THEN 0
        ELSE IF x = 0 THEN Infinity
        ELSE IF x > 0 \/ (-p) % 2 = 0
        THEN Fl(1 \div ((IF x < 0 THEN -x ELSE x) ^ (-p)))
        ELSE -Fl(1 \div ((-x) ^ (-p))))
\* pow(x, 1.0 / q) for an integer q > 0
FRoot(x, q) ==
  IF x = NaN \/ x < 0 THEN NaN
  ELSE IF x = Infinity THEN Infinity
  ELSE Fl(Root(x, q))

\* ----------------------------------------------------------- arithmetic
\* an axpy that assigns instead of accumulating
cblas_Xaxpy_assign(dim, alpha, x, incx, y, incy) ==
  [c \in 1..Len(y) |->
     IF \E i \in 0..(dim - 1) : c = i * incy + 1
     THEN FMul(alpha, x[((c - 1) \div incy) * incx + 1])
     ELSE y[c]]

\* cblas_Xaxpy(dim, alpha, x, incx, y, incy): y[i*incy] += alpha * x[i*incx]
cblas_Xaxpy(dim, alpha, x, incx, y, incy) ==
  [c \in 1..Len(y) |->
     IF \E i \in 0..(dim - 1) : c = i * incy + 1
     THEN FAdd(y[c], FMul(alpha, x[((c - 1) \div incy) * incx + 1]))
     ELSE y[c]]

\* VectorBase<Real>::AddVec(alpha, v), same precision; same is (&v == this)
VectorBase_AddVec(r, hp, alpha, v, same) ==
  IF ~(r.dim_ = v.dim_) THEN Res(r, hp, "assert")
  ELSE IF same THEN Res(r, hp, "assert")
  ELSE IF r.dim_ = 0 THEN Res(r, hp, "ok")
  ELSE Res(r, [hp EXCEPT ![r.data_] =
                 cblas_Xaxpy(r.dim_, alpha, hp[v.data_], v.stride_, @, r.stride_)], "ok")

\* VectorBase<Real>::CopyFromVec(v), same precision: one memcpy of dim_ elements
VectorBase_CopyFromVec(r, hp, v) ==
  IF ~(r.dim_ = v.dim_) THEN Res(r, hp, "assert")
  ELSE IF r.data_ # v.data_ /\ r.dim_ > 0
       THEN Res(r, [hp EXCEPT ![r.data_] = memcpy(@, hp[v.data_], r.dim_)], "ok")
       ELSE Res(r, hp, "ok")

\* a converting copy whose loop stops one element short
CopyFromVecOther_short(r, hp, k, other) ==
  IF ~(r.dim_ = other.dim_) THEN Res(r, hp, "assert")
  ELSE IF r.dim_ = 0 THEN Res(r, hp, "ok")
  ELSE Res(r, [hp EXCEPT ![r.data_] =
         [c \in 1..Len(@) |->
            IF \E i \in 0..(r.dim_ - 2) : c = i * r.stride_ + 1
            THEN Convert(k, hp[other.data_][((c - 1) \div r.stride_) * other.stride_ + 1])
            ELSE @[c]]], "ok")

\* VectorBase<Real>::CopyFromVec(other), other precision: the strided loop
CopyFromVecOther(r, hp, k, other) ==
  IF ~(r.dim_ = other.dim_) THEN Res(r, hp, "assert")
  ELSE IF r.dim_ = 0 THEN Res(r, hp, "ok")
  ELSE Res(r, [hp EXCEPT ![r.data_] =
         [c \in 1..Len(@) |->
            IF \E i \in 0..(r.dim_ - 1) : c = i * r.stride_ + 1
            THEN Convert(k, hp[other.data_][((c - 1) \div r.stride_) * other.stride_ + 1])
            ELSE @[c]]], "ok")

\* ------------------------------------------------------ dimension checks
\* The arithmetic operations, as far as their dimensions go: the receiver
\* has length dim, a vector operand a length, a matrix operand rows and
\* cols; same says that the operand is the receiver itself.  The outcome is
\* whether the call failed and how many receiver elements its loop wrote.
Outcome(ok, n) == [err |-> IF ok THEN "ok" ELSE "assert", wrote |-> IF ok THEN n ELSE 0]
kNoTrans == "kNoTrans"
kTrans == "kTrans"

\* VecVec(a, b)
VecVec(adim, bdim) == Outcome(adim = bdim, 0)

\* VectorBase<Real>::AddVec(alpha, v)
AddVec(dim, vdim, same) == Outcome(dim = vdim /\ ~same, dim)

\* VectorBase<Real>::MulElements(v)
MulElements(dim, vdim) == Outcome(dim = vdim, dim)

\* VectorBase<Real>::DivElements(v)
DivElements(dim, vdim) == Outcome(dim = vdim, dim)

\* VectorBase<Real>::CopyFromVec(v), either precision
CopyFromVec(dim, vdim) == Outcome(dim = vdim, dim)

\* VectorBase<Real>::ApplyFloor(floor_vec)
ApplyFloor(dim, vdim) == Outcome(vdim = dim, dim)

\* VectorBase<Real>::AddVecVec(alpha, v, r, beta)
AddVecVec(dim, vdim, rdim, same) == Outcome(~same /\ (dim = vdim /\ dim = rdim), dim)

\* VectorBase<Real>::AddVecDivVec(alpha, v, rr, beta)
AddVecDivVec(dim, vdim, rrdim) == Outcome(dim = vdim /\ dim = rrdim, dim)

\* VectorBase<Real>::AddVec2(alpha, v)
AddVec2(dim, vdim) == Outcome(dim = vdim, dim)

\* an AddMatVec that checks the dimensions as if M were never transposed
AddMatVec_ignores_trans(dim, M, trans, vdim, same) ==
  Outcome((M.cols = vdim /\ M.rows = dim) /\ ~same, dim)

\* VectorBase<Real>::AddMatVec(alpha, M, trans, v, beta)
AddMatVec(dim, M, trans, vdim, same) ==
  Outcome(((trans = kNoTrans /\ M.cols = vdim /\ M.rows = dim)
           \/ (trans = kTrans /\ M.rows = vdim /\ M.cols = dim)) /\ ~same, dim)

\* VectorBase<Real>::AddSpVec(alpha, M, v, beta)
AddSpVec(dim, M, vdim, same) == Outcome((M.rows = vdim /\ dim = vdim) /\ ~same, dim)

\* VectorBase<Real>::AddDiagMat2(alpha, M, trans, beta)
AddDiagMat2(dim, M, trans) ==
  IF trans = kNoTrans THEN Outcome(dim = M.rows, dim) ELSE Outcome(dim = M.cols, dim)

\* VectorBase<Real>::AddDiagMatMat(alpha, M, transM, N, transN, beta); oob
\* says that a dot product read an element outside M or N
AddDiagMatMat(dim, M, transM, N, transN) ==
  LET M_col_dim == IF transM = kTrans THEN M.rows ELSE M.cols
      N_row_dim == IF transN = kTrans THEN N.cols ELSE N.rows
      \* row i of op(M), element k: M(i, k), or M(k, i) when transposed
      MRead(i, k) == IF transM = kTrans THEN [row |-> k, col |-> i] ELSE [row |-> i, col |-> k]
      \* column i of op(N), element k: N(k, i), or N(i, k) when transposed
      NRead(i, k) == IF transN = kTrans THEN [row |-> i, col |-> k] ELSE [row |-> k, col |-> i]
      Inside(A, e) == e.row < A.rows /\ e.col < A.cols
  IN IF ~(M_col_dim = N_row_dim) THEN [err |-> "assert", wrote |-> 0, oob |-> FALSE]
     ELSE [err |-> "ok", wrote |-> dim,
           oob |-> \E i \in 0..(dim - 1) : \E k \in 0..(M_col_dim - 1) :
                     ~Inside(M, MRead(i, k)) \/ ~Inside(N, NRead(i, k))]

\* ---------------------------------------------------------- binary stream
\* A stream is a sequence of items [t, x]: a token ("FV" / "DV"), an int32,
\* or one raw element of a precision ("F" / "D").
Token(k) == [t |-> k \o "V", x |-> 0]
Int32(n) == [t |-> "int32", x |-> n]
Raw(k, x) == [t |-> k, x |-> x]

\* Peek(is, binary): the first character of what comes next
Peek(is) ==
  IF is = <<>> THEN "eof"
  ELSE IF Head(is).t = "FV" THEN "F"
  ELSE IF Head(is).t = "DV" THEN "D"
  ELSE "raw"

\* a Write that tags every vector as single precision
VectorBase_Write_FV(r, hp, os, k) ==
  os \o <<Token("F"), Int32(r.dim_)>> \o [i \in 1..r.dim_ |-> Raw(k, hp[r.data_][i])]

\* VectorBase<Real>::Write(os, binary = true) for Real = k
VectorBase_Write(r, hp, os, k) ==
  LET size == r.dim_ IN
  os \o <<Token(k), Int32(size)>> \o [i \in 1..size |-> Raw(k, hp[r.data_][i])]

RRes(r, hp, is, err) == [r |-> r, hp |-> hp, is |-> is, err |-> err]

\* is.read(data_, sizeof(Real) * size): the raw elements that are there
NumRaw(is, k, size) ==
  IF \E n \in 0..size : n <= Len(is) /\ (\A i \in 1..n : is[i].t = k)
        /\ (n = size \/ n = Len(is) \/ is[n + 1].t # k)
  THEN CHOOSE n \in 0..size : n <= Len(is) /\ (\A i \in 1..n : is[i].t = k)
        /\ (n = size \/ n = Len(is) \/ is[n + 1].t # k)
  ELSE 0

\* Vector<Real>::Read, binary, add == false, after the peek found this
\* precision's own tag (or anything but the other precision's)
ReadOwn(r, hp, is, k, g) ==
  IF is = <<>> THEN RRes(r, hp, is, "error")
  ELSE IF Head(is) # Token(k) THEN RRes(r, hp, Tail(is), "error")
  ELSE IF Tail(is) = <<>> \/ Head(Tail(is)).t # "int32"
       THEN RRes(r, hp, Tail(is), "error")
  ELSE LET IsRead(rs, is2, size, n) ==
             RRes(rs.r,
                  [rs.hp EXCEPT ![rs.r.data_] =
                     [i \in 1..Len(@) |-> IF i <= n THEN is2[i].x ELSE @[i]]],
                  SubSeq(is2, n + 1, Len(is2)),
                  IF n < size THEN "error" ELSE "ok")
           Resized(rs, is2, size) ==
             IF rs.err # "ok" THEN RRes(rs.r, rs.hp, is2, rs.err)
             ELSE IF size > 0 THEN IsRead(rs, is2, size, NumRaw(is2, k, size))
             ELSE RRes(rs.r, rs.hp, is2, "ok")
           Sized(size) ==
             Resized(IF size # r.dim_ THEN Vector_Resize(r, hp, size, "kSetZero", g)
                     ELSE Res(r, hp, "ok"),
                     Tail(Tail(is)), size)
       IN Sized(Head(Tail(is)).x)

\* Vector<Real>::Read(is, binary = true, add = false) for Real = k
ReadNoAdd(r, hp, is, k, g) ==
  IF Peek(is) = OtherReal(k)
  THEN LET \* other goes out of scope on every path
            Done(rd, cp) == RRes(cp.r, Vector_Destroy(rd.r, cp.hp).hp, rd.is, cp.err)
            Resized(rd, rs) ==
              IF rs.err # "ok" THEN Done(rd, rs)
              ELSE Done(rd, CopyFromVecOther(rs.r, rs.hp, k, rd.r))
            OtherRead(rd) ==
              IF rd.err # "ok" THEN Done(rd, Res(r, rd.hp, rd.err))
              ELSE Resized(rd, IF r.dim_ # rd.r.dim_
                               THEN Vector_Resize(r, rd.hp, rd.r.dim_, "kSetZero", g)
                               ELSE Res(r, rd.hp, "ok"))
            Other(o) ==
              IF o.err # "ok" THEN RRes(r, hp, is, o.err)
              ELSE OtherRead(ReadOwn(o.r, o.hp, is, OtherReal(k), g))
       IN Other(NewVector(hp, r.dim_, "kSetZero", g))
  ELSE ReadOwn(r, hp, is, k, g)

\* Vector<Real>::Read(is, binary = true, add) for Real = k
Vector_Read(r, hp, is, k, add, g) ==
  IF add
  THEN LET \* tmp goes out of scope on every path
            Done(rd, ad) == RRes(ad.r, Vector_Destroy(rd.r, ad.hp).hp, rd.is, ad.err)
            Resized(rd, rs) ==
              IF rs.err # "ok" THEN Done(rd, rs)
              ELSE IF rs.r.dim_ # rd.r.dim_ THEN Done(rd, Res(rs.r, rs.hp, "error"))
              ELSE Done(rd, VectorBase_AddVec(rs.r, rs.hp, 1, rd.r, FALSE))
            TmpRead(rd) ==
              IF rd.err # "ok" THEN Done(rd, Res(r, rd.hp, rd.err))
              ELSE Resized(rd, IF r.dim_ = 0
                               THEN Vector_Resize(r, rd.hp, rd.r.dim_, "kSetZero", g)
                               ELSE Res(r, rd.hp, "ok"))
            Tmp(t) ==
              IF t.err # "ok" THEN RRes(r, hp, is, t.err)
              ELSE TmpRead(ReadNoAdd(t.r, t.hp, is, k, g))
       IN Tmp(NewVector(hp, r.dim_, "kSetZero", g))
  ELSE ReadNoAdd(r, hp, is, k, g)

\* VectorBase<Real>::Read(is, binary = true, add) on a view r, Real = k
VectorBase_Read(r, hp, is, k, add, g) ==
  LET \* tmp goes out of scope on every path
      Done(rd, op) == RRes(op.r, Vector_Destroy(rd.r, op.hp).hp, rd.is, op.err)
      TmpRead(rd) ==
        IF rd.err # "ok" THEN Done(rd, Res(r, rd.hp, rd.err))
        ELSE IF r.dim_ # rd.r.dim_ THEN Done(rd, Res(r, rd.hp, "error"))
        ELSE Done(rd, IF add THEN VectorBase_AddVec(r, rd.hp, 1, rd.r, FALSE)
                      ELSE VectorBase_CopyFromVec(r, rd.hp, rd.r))
      Tmp(t) ==
        IF t.err # "ok" THEN RRes(r, hp, is, t.err)
        ELSE TmpRead(ReadNoAdd(t.r, t.hp, is, k, g))
  IN Tmp(IF add THEN NewVector(hp, r.dim_, "kSetZero", g)
         ELSE Res(EmptyBase, hp, "ok"))


\* ------------------------------------------------------------ text stream
\* In text mode a stream is a sequence of characters.

DigitChars == <<"0", "1", "2", "3", "4", "5", "6", "7", "8", "9">>
IsDigit(c) == \E d \in 1..Len(DigitChars) : DigitChars[d] = c
DigitVal(c) == (CHOOSE d \in 1..Len(DigitChars) : DigitChars[d] = c) - 1
\* std::isspace for the characters of the model
IsSpace(c) == c \in {" ", "\t", "\n", "\r"}

UpperCase == <<"A", "F", "I", "N", "T", "Y">>
LowerCase == <<"a", "f", "i", "n", "t", "y">>
ToLower(c) ==
  IF \E j \in 1..Len(UpperCase) : UpperCase[j] = c
  THEN LowerCase[CHOOSE j \in 1..Len(UpperCase) : UpperCase[j] = c]
  ELSE c
\* KALDI_STRCASECMP(s, t) == 0
StrCaseEq(s, t) == Len(s) = Len(t) /\ \A j \in 1..Len(s) : ToLower(s[j]) = ToLower(t[j])

\* os << x for an element x: decimal digits, "inf", "-inf", "nan"
RECURSIVE PutDigits(_)
PutDigits(n) ==
  IF n < 10 THEN <<DigitChars[n + 1]>>
  ELSE PutDigits(n \div 10) \o <<DigitChars[(n % 10) + 1]>>
PutReal(x) ==
  IF x = NaN THEN <<"n", "a", "n">>
  ELSE IF x = Infinity THEN <<"i", "n", "f">>
  ELSE IF x = -Infinity THEN <<"-", "i", "n", "f">>
  ELSE IF x < 0 THEN <<"-">> \o PutDigits(-x)
  ELSE PutDigits(x)

\* the position of the first character of is at or after p that is not
\* white space, Len(is) + 1 if there is none
RECURSIVE SkipSpace(_, _)
SkipSpace(is, p) ==
  IF p <= Len(is) /\ IsSpace(is[p]) THEN SkipSpace(is, p + 1) ELSE p
\* the position after the run of non-space characters that starts at p
RECURSIVE TokenEnd(_, _)
TokenEnd(is, p) ==
  IF p <= Len(is) /\ ~IsSpace(is[p]) THEN TokenEnd(is, p + 1) ELSE p
\* the position after the run of digits that starts at p
RECURSIVE DigitsEnd(_, _)
DigitsEnd(is, p) ==
  IF p <= Len(is) /\ IsDigit(is[p]) THEN DigitsEnd(is, p + 1) ELSE p
\* the value of the digits is[p .. q-1]
RECURSIVE DigitsVal(_, _, _)
DigitsVal(is, p, q) ==
  IF q <= p THEN 0 ELSE 10 * DigitsVal(is, p, q - 1) + DigitVal(is[q - 1])

\* is >> s: skips white space, takes the characters up to the next white
\* space; fails at end of stream
GetString(is) ==
  LET Taken(p, q) ==
        [s |-> SubSeq(is, p, q - 1), is |-> SubSeq(is, q, Len(is)), fail |-> p = q]
      From(p) == Taken(p, TokenEnd(is, p))
  IN From(SkipSpace(is, 1))

\* an extraction that takes a sign without digits for a number
GetReal_sign_only(is, k) ==
  LET Taken(p, q) ==
        [r |-> Convert(k, IF p = 2 THEN -DigitsVal(is, p, q) ELSE DigitsVal(is, p, q)),
         is |-> SubSeq(is, q, Len(is)), fail |-> FALSE]
      From(p) == Taken(p, DigitsEnd(is, p))
  IN From(IF is[1] = "-" THEN 2 ELSE 1)

\* is >> r for Real = k, called when the next character is '-' or a digit:
\* an optional sign and a run of digits; fails when there is no digit
GetReal(is, k) ==
  LET Taken(p, q) ==
        [r |-> Convert(k, IF p = 2 THEN -DigitsVal(is, p, q) ELSE DigitsVal(is, p, q)),
         is |-> SubSeq(is, q, Len(is)), fail |-> p = q]
      From(p) == Taken(p, DigitsEnd(is, p))
  IN From(IF is[1] = "-" THEN 2 ELSE 1)

\* what the text branch of Read leaves: the numbers read, the rest of the
\* stream, and whether it reached the label bad
TRes(data, is, err) == [data |-> data, is |-> is, err |-> err]

\* after the ']': "\r\n" or "\n" is taken from the stream
EatNewline(is) ==
  IF is # <<>> /\ Head(is) = "\r" THEN SubSeq(is, 3, Len(is))
  ELSE IF is # <<>> /\ Head(is) = "\n" THEN Tail(is)
  ELSE is

\* the while (1) loop of the text branch of Vector<Real>::Read
RECURSIVE ReadTextLoop(_, _, _)
ReadTextLoop(is, k, data) ==
  IF is = <<>> THEN TRes(data, is, "error")
  ELSE IF Head(is) = "-" \/ IsDigit(Head(is))
  THEN LET Number(num) ==
             IF num.fail THEN TRes(data, num.is, "error")
             ELSE IF num.is = <<>> \/ (~IsSpace(Head(num.is)) /\ Head(num.is) # "]")
             THEN TRes(data, num.is, "error")
             ELSE ReadTextLoop(num.is, k, Append(data, num.r))
       IN Number(GetReal(is, k))
  ELSE IF Head(is) = " " \/ Head(is) = "\t" THEN ReadTextLoop(Tail(is), k, data)
  ELSE IF Head(is) = "]" THEN TRes(data, EatNewline(Tail(is)), "ok")
  ELSE IF Head(is) = "\n" \/ Head(is) = "\r" THEN TRes(data, is, "error")
  ELSE LET String(t) ==
             IF StrCaseEq(t.s, <<"i", "n", "f">>)
                \/ StrCaseEq(t.s, <<"i", "n", "f", "i", "n", "i", "t", "y">>)
             THEN ReadTextLoop(t.is, k, Append(data, Infinity))
             ELSE IF StrCaseEq(t.s, <<"n", "a", "n">>)
             THEN ReadTextLoop(t.is, k, Append(data, NaN))
             ELSE TRes(data, t.is, "error")
       IN String(GetString(is))

\* this->data_[j * this->stride_] = data[j] for j < data.size()
StoreData(r, hp, data) ==
  IF data = <<>> THEN hp
  ELSE [hp EXCEPT ![r.data_] =
          [c \in 1..Len(@) |->
             IF \E j \in 0..(Len(data) - 1) : c = j * r.stride_ + 1
             THEN data[((c - 1) \div r.stride_) + 1]
             ELSE @[c]]]

\* Vector<Real>::Read(is, binary = false, add = false) for Real = k
Vector_ReadText(r, hp, is, k, g) ==
  LET Resized(rs, t) ==
        IF rs.err # "ok" THEN RRes(rs.r, rs.hp, t.is, rs.err)
        ELSE RRes(rs.r, StoreData(rs.r, rs.hp, t.data), t.is, "ok")
      Looped(t) ==
        IF t.err # "ok" THEN RRes(r, hp, t.is, "error")
        ELSE Resized(Vector_Resize(r, hp, Len(t.data), "kSetZero", g), t)
      First(t) ==
        IF t.fail THEN RRes(r, hp, t.is, "error")
        ELSE IF t.s = <<"[", "]">>
        THEN Resized(Vector_Resize(r, hp, 0, "kSetZero", g), TRes(<<>>, t.is, "ok"))
        ELSE IF t.s # <<"[">> THEN RRes(r, hp, t.is, "error")
        ELSE Looped(ReadTextLoop(t.is, k, <<>>))
  IN First(GetString(is))

\* (*this)(i): *(data_ + i)
Index(r, hp, i) == hp[r.data_][i + 1]

\* VectorBase<Real>::Write(os, binary = false)
RECURSIVE PutElems(_, _, _, _)
PutElems(r, hp, os, i) ==
  IF i < r.dim_
  THEN PutElems(r, hp, os \o PutReal(Index(r, hp, i * r.stride_)) \o <<" ">>, i + 1)
  ELSE os
VectorBase_WriteText(r, hp, os) ==
  PutElems(r, hp, os \o <<" ", "[", " ">>, 0) \o <<"]", "\n">>

\* ------------------------------------------------------ element access
\* data[i * stride] of a vector
At(r, hp, i) == hp[r.data_][i * r.stride_ + 1]

\* ---------------------------------------------------------- Max and Min
\* VectorBase<Real>::Max(): the block of four from i on, then the rest
Larger(a, b) == IF FLess(b, a) THEN a ELSE b
RECURSIVE MaxLoop(_, _, _, _)
MaxLoop(r, hp, i, ans) ==
  IF i + 4 <= r.dim_
  THEN MaxLoop(r, hp, i + 4,
         IF FLess(ans, At(r, hp, i)) \/ FLess(ans, At(r, hp, i + 1))
            \/ FLess(ans, At(r, hp, i + 2)) \/ FLess(ans, At(r, hp, i + 3))
         THEN Larger(Larger(At(r, hp, i + 2), At(r, hp, i + 3)),
                     Larger(Larger(At(r, hp, i), At(r, hp, i + 1)), ans))
         ELSE ans)
  ELSE IF i < r.dim_
  THEN MaxLoop(r, hp, i + 1, Larger(At(r, hp, i), ans))
  ELSE ans
VectorBase_Max(r, hp) == MaxLoop(r, hp, 0, -Infinity)

\* VectorBase<Real>::Max(index_out); index_out is what *index_out held before
\* the call, ans what the call returns
\* a comparison that also takes an element equal to the maximum so far
Better_ties(st, a, i) == IF ~FLess(a, st.ans) THEN [ans |-> a, index |-> i] ELSE st
Better(st, a, i) == IF FLess(st.ans, a) THEN [ans |-> a, index |-> i] ELSE st
RECURSIVE MaxIndexLoop(_, _, _, _)
MaxIndexLoop(r, hp, i, st) ==
  IF i + 4 <= r.dim_
  THEN MaxIndexLoop(r, hp, i + 4,
         Better(Better(Better(Better(st, At(r, hp, i), i), At(r, hp, i + 1), i + 1),
                       At(r, hp, i + 2), i + 2), At(r, hp, i + 3), i + 3))
  ELSE IF i < r.dim_
  THEN MaxIndexLoop(r, hp, i + 1, Better(st, At(r, hp, i), i))
  ELSE st
VectorBase_MaxIndex(r, hp, index_out) ==
  IF r.dim_ = 0 THEN [err |-> "error", ans |-> 0, index |-> index_out]
  ELSE [err |-> "ok"] @@ MaxIndexLoop(r, hp, 0, [ans |-> -Infinity, index |-> 0])

\* VectorBase<Real>::Min()
Smaller(a, b) == IF FLess(a, b) THEN a ELSE b
RECURSIVE MinLoop(_, _, _, _)
MinLoop(r, hp, i, ans) ==
  IF i + 4 <= r.dim_
  THEN MinLoop(r, hp, i + 4,
         IF FLess(At(r, hp, i), ans) \/ FLess(At(r, hp, i + 1), ans)
            \/ FLess(At(r, hp, i + 2), ans) \/ FLess(At(r, hp, i + 3), ans)
         THEN Smaller(Smaller(At(r, hp, i + 2), At(r, hp, i + 3)),
                      Smaller(Smaller(At(r, hp, i), At(r, hp, i + 1)), ans))
         ELSE ans)
  ELSE IF i < r.dim_
  THEN MinLoop(r, hp, i + 1, Smaller(At(r, hp, i), ans))
  ELSE ans
VectorBase_Min(r, hp) == MinLoop(r, hp, 0, Infinity)

\* VectorBase<Real>::Min(index_out)
BetterMin(st, a, i) == IF FLess(a, st.ans) THEN [ans |-> a, index |-> i] ELSE st
RECURSIVE MinIndexLoop(_, _, _, _)
MinIndexLoop(r, hp, i, st) ==
  IF i + 4 <= r.dim_
  THEN MinIndexLoop(r, hp, i + 4,
         BetterMin(BetterMin(BetterMin(BetterMin(st, At(r, hp, i), i),
                                       At(r, hp, i + 1), i + 1),
                             At(r, hp, i + 2), i + 2), At(r, hp, i + 3), i + 3))
  ELSE IF i < r.dim_
  THEN MinIndexLoop(r, hp, i + 1, BetterMin(st, At(r, hp, i), i))
  ELSE st
VectorBase_MinIndex(r, hp, index_out) ==
  IF r.dim_ = 0 THEN [err |-> "error", ans |-> 0, index |-> index_out]
  ELSE [err |-> "ok"] @@ MinIndexLoop(r, hp, 0, [ans |-> Infinity, index |-> 0])

\* ----------------------------------------------------------------- Norm
\* one round of a loop of Norm: the sum after the element x
NormTerm(p, x, sum) ==
  IF p = 0 THEN (IF x # 0 THEN FAdd(sum, 1) ELSE sum)
  ELSE IF p = 1 THEN FAdd(sum, FAbs(x))
  ELSE IF p = 2 THEN FAdd(sum, FMul(x, x))
  ELSE IF p = Infinity THEN (IF FLess(sum, FAbs(x)) THEN FAbs(x) ELSE sum)
  ELSE FAdd(sum, FPow(FAbs(x), p))
RECURSIVE NormLoop(_, _, _, _, _)
NormLoop(r, hp, p, i, sum) ==
  IF i < r.dim_ THEN NormLoop(r, hp, p, i + 1, NormTerm(p, At(r, hp, i), sum)) ELSE sum
\* the exact sum of |x_i|^p over finite elements
RECURSIVE PowSum(_, _, _, _)
PowSum(r, hp, p, i) ==
  IF i < r.dim_ THEN FAbs(At(r, hp, i)) ^ p + PowSum(r, hp, p, i + 1) ELSE 0
\* the else-branch after the assertion: Max(), Min(), max_abs, the scaled
\* copy, its Norm(p) and the product.  The scaled elements lie in [-1, 1],
\* so no term of the inner call overflows; the rounding of the scaling is
\* left out and the product is the rounded exact norm.  A NaN stays a NaN
\* and an infinite element becomes one (inf * 0, or inf / inf).
NormRescaled(r, hp, p) ==
  LET max_abs == IF FLess(VectorBase_Max(r, hp), -VectorBase_Min(r, hp))
                 THEN -VectorBase_Min(r, hp) ELSE VectorBase_Max(r, hp)
  IN IF ~FLess(0, max_abs) THEN [err |-> "assert", val |-> 0]
     ELSE IF \E i \in 0..(r.dim_ - 1) : ~IsFinite(At(r, hp, i))
     THEN [err |-> "ok", val |-> NaN]
     ELSE [err |-> "ok", val |-> Fl(Root(PowSum(r, hp, p, 0), p))]
\* VectorBase<Real>::Norm(p)
VectorBase_Norm(r, hp, p) ==
  IF ~FGeq(p, 0) THEN [err |-> "assert", val |-> 0]
  ELSE IF p \in {0, 1, Infinity} THEN [err |-> "ok", val |-> NormLoop(r, hp, p, 0, 0)]
  ELSE IF p = 2 THEN [err |-> "ok", val |-> FSqrt(NormLoop(r, hp, p, 0, 0))]
  ELSE IF FRoot(NormLoop(r, hp, p, 0, 0), p) = HUGE_VAL
  THEN [err |-> "assert", val |-> 0]
  ELSE IF \A i \in 0..(r.dim_ - 1) : FPow(FAbs(At(r, hp, i)), p) # HUGE_VAL
  THEN [err |-> "ok", val |-> FRoot(NormLoop(r, hp, p, 0, 0), p)]
  ELSE NormRescaled(r, hp, p)

\* ------------------------------------------------------------ ApplyFloor
\* a loop body that also floors an element equal to its floor
FloorStep_le(r, fv, i, st) ==
  IF ~FLess(At(fv, st.hp, i), At(r, st.hp, i))
  THEN [hp |-> [st.hp EXCEPT ![r.data_][i * r.stride_ + 1] = At(fv, st.hp, i)],
        num_floored |-> st.num_floored + 1]
  ELSE st
\* the loop body of ApplyFloor(floor_vec) for the element i
FloorStep(r, fv, i, st) ==
  IF FLess(At(r, st.hp, i), At(fv, st.hp, i))
  THEN [hp |-> [st.hp EXCEPT ![r.data_][i * r.stride_ + 1] = At(fv, st.hp, i)],
        num_floored |-> st.num_floored + 1]
  ELSE st
RECURSIVE FloorLoop(_, _, _, _)
FloorLoop(r, fv, i, st) ==
  IF i < r.dim_ THEN FloorLoop(r, fv, i + 1, FloorStep(r, fv, i, st)) ELSE st
\* VectorBase<Real>::ApplyFloor(floor_vec)
VectorBase_ApplyFloor(r, hp, floor_vec) ==
  IF ~(floor_vec.dim_ = r.dim_) THEN [err |-> "assert", hp |-> hp, num_floored |-> 0]
  ELSE [err |-> "ok"] @@ FloorLoop(r, floor_vec, 0, [hp |-> hp, num_floored |-> 0])

\* ------------------------------------------------------- RandCategorical
\* VectorBase<Real>::Sum(): the dot product with a vector of ones
RECURSIVE SumLoop(_, _, _, _)
SumLoop(r, hp, i, sum) ==
  IF i < r.dim_ THEN SumLoop(r, hp, i + 1, FAdd(sum, FMul(At(r, hp, i), 1))) ELSE sum
VectorBase_Sum(r, hp) == SumLoop(r, hp, 0, 0)
\* a test that also takes a running sum equal to r
Below_eq(u, sum, running_sum) == u.num * sum <= running_sum * u.den
\* r < running_sum, where r = u * sum for the draw u = num / den; the
\* product is kept exact
Below(u, sum, running_sum) == u.num * sum < running_sum * u.den
RECURSIVE CategoricalLoop(_, _, _, _, _, _)
CategoricalLoop(r, hp, u, sum, i, running_sum) ==
  IF i < r.dim_
  THEN (IF Below(u, sum, FAdd(running_sum, At(r, hp, i))) THEN i
        ELSE CategoricalLoop(r, hp, u, sum, i + 1, FAdd(running_sum, At(r, hp, i))))
  ELSE r.dim_ - 1
\* VectorBase<Real>::RandCategorical(), RandUniform returning u
VectorBase_RandCategorical(r, hp, u) ==
  IF ~(FGeq(VectorBase_Min(r, hp), 0) /\ FLess(0, VectorBase_Sum(r, hp)))
  THEN [err |-> "assert", index |-> 0]
  ELSE [err |-> "ok", index |-> CategoricalLoop(r, hp, u, VectorBase_Sum(r, hp), 0, 0)]

\* ------------------------------------------------- ApplyPow, ApplyPowAbs
\* A power is the fraction num / den: 1, 2, 0.5 = 1 / 2, and so on.
Power(n, d) == [num |-> n, den |-> d]
\* pow(x, power)
Pow(x, power) ==
  IF power.den = 1 THEN FPow(x, power.num) ELSE FRoot(FPow(x, power.num), power.den)
\* (include_sign && x < 0 ? -1 : 1)
SignOf(include_sign, x) == IF include_sign /\ FLess(x, 0) THEN -1 ELSE 1

\* what one round of a loop of ApplyPow leaves in the element x, and whether
\* the round raises KALDI_ERR; branch names the loop
PowElem(branch, x, power) ==
  IF branch = "two" THEN [val |-> FMul(x, x), err |-> "ok"]
  ELSE IF branch = "half"
  THEN (IF ~FGeq(x, 0) THEN [val |-> x, err |-> "error"]
        ELSE [val |-> FSqrt(x), err |-> "ok"])
  ELSE [val |-> Pow(x, power),
        err |-> IF Pow(x, power) = HUGE_VAL THEN "error" ELSE "ok"]
RECURSIVE PowLoop(_, _, _, _, _)
PowLoop(r, hp, branch, power, i) ==
  LET Stored(e) ==
        IF e.err = "ok"
        THEN PowLoop(r, [hp EXCEPT ![r.data_][i * r.stride_ + 1] = e.val], branch, power, i + 1)
        ELSE Res(r, [hp EXCEPT ![r.data_][i * r.stride_ + 1] = e.val], e.err)
  IN IF i < r.dim_ THEN Stored(PowElem(branch, At(r, hp, i), power)) ELSE Res(r, hp, "ok")
\* VectorBase<Real>::ApplyPow(power), the build without HAVE_MKL
VectorBase_ApplyPow(r, hp, power) ==
  IF power = Power(1, 1) THEN Res(r, hp, "ok")
  ELSE IF power = Power(2, 1) THEN PowLoop(r, hp, "two", power, 0)
  ELSE IF power = Power(1, 2) THEN PowLoop(r, hp, "half", power, 0)
  ELSE PowLoop(r, hp, "pow", power, 0)

\* the same for the loops of ApplyPowAbs
PowAbsElem(branch, x, power, include_sign) ==
  LET Signed(t) == FMul(t, SignOf(include_sign, t))
      Checked(v) == [val |-> v, err |-> IF v = HUGE_VAL THEN "error" ELSE "ok"]
  IN IF branch = "one"
     THEN [val |-> FMul(SignOf(include_sign, x), FAbs(x)), err |-> "ok"]
     ELSE IF branch = "two"
     THEN [val |-> FMul(FMul(SignOf(include_sign, x), x), x), err |-> "ok"]
     ELSE IF branch = "half"
     THEN [val |-> FMul(SignOf(include_sign, x), FSqrt(FAbs(x))), err |-> "ok"]
     ELSE IF branch = "negative"
     THEN Checked(Signed(IF x = 0 THEN 0 ELSE Pow(FAbs(x), power)))
     ELSE Checked(FMul(SignOf(include_sign, x), Pow(FAbs(x), power)))
RECURSIVE PowAbsLoop(_, _, _, _, _, _)
PowAbsLoop(r, hp, branch, power, include_sign, i) ==
  LET Stored(e) ==
        IF e.err = "ok"
        THEN PowAbsLoop(r, [hp EXCEPT ![r.data_][i * r.stride_ + 1] = e.val],
                        branch, power, include_sign, i + 1)
        ELSE Res(r, [hp EXCEPT ![r.data_][i * r.stride_ + 1] = e.val], e.err)
  IN IF i < r.dim_
     THEN Stored(PowAbsElem(branch, At(r, hp, i), power, include_sign))
     ELSE Res(r, hp, "ok")
\* VectorBase<Real>::ApplyPowAbs(power, include_sign): the loop for power 1
\* is followed by the if / else-if chain, whose last branch takes power 1 too
VectorBase_ApplyPowAbs(r, hp, power, include_sign) ==
  LET Chain(h) ==
        IF power = Power(2, 1) THEN PowAbsLoop(r, h, "two", power, include_sign, 0)
        ELSE IF power = Power(1, 2) THEN PowAbsLoop(r, h, "half", power, include_sign, 0)
        ELSE IF power.num < 0 THEN PowAbsLoop(r, h, "negative", power, include_sign, 0)
        ELSE PowAbsLoop(r, h, "pow", power, include_sign, 0)
  IN IF power = Power(1, 1)
     THEN Chain(PowAbsLoop(r, hp, "one", power, include_sign, 0).hp)
     ELSE Chain(hp)

\* ------------------------------------------------------ allocation size
\* sizeof(Real)
SizeOf(k) == IF k = "F" THEN 4 ELSE 8
\* the conversion of a size_t to MatrixIndexT: the low IntBits bits, signed
ToIndexT(n) ==
  IF (n % (2 ^ IntBits)) >= 2 ^ (IntBits - 1) THEN (n % (2 ^ IntBits)) - 2 ^ IntBits
  ELSE n % (2 ^ IntBits)
IndexT == (-(2 ^ (IntBits - 1)))..(2 ^ (IntBits - 1) - 1)
\* size = dim * sizeof(Real), size being a MatrixIndexT
InitSize(dim, k) == ToIndexT(dim * SizeOf(k))
\* Vector<Real>::Init(dim) as far as the request to the allocator goes;
\* avail says whether the allocator can serve a request of up to IntBits
\* bits.  A negative size reaches the allocator as a size_t beyond all
\* memory.  requested is the byte count asked for, -1 when none was.
InitRequest(dim, k, avail) ==
  IF ~(dim >= 0) THEN [err |-> "assert", requested |-> -1, dim_ |-> 0, null |-> TRUE]
  ELSE IF dim = 0 THEN [err |-> "ok", requested |-> -1, dim_ |-> 0, null |-> TRUE]
  ELSE IF avail /\ InitSize(dim, k) >= 0
  THEN [err |-> "ok", requested |-> InitSize(dim, k), dim_ |-> dim, null |-> FALSE]
  ELSE [err |-> "bad_alloc", requested |-> InitSize(dim, k), dim_ |-> 0, null |-> TRUE]

\* ------------------------------------------- ApplyFloor and ApplyCeiling
\* std::max(a, b) and std::min(a, b)
StdMax(a, b) == IF FLess(a, b) THEN b ELSE a
StdMin(a, b) == IF FLess(b, a) THEN b ELSE a
\* ApplyFloor(floor_val, nullptr): data[i] = std::max(data[i * stride], floor_val)
RECURSIVE FloorValLoop(_, _, _, _)
FloorValLoop(r, hp, floor_val, i) ==
  IF i < r.dim_
  THEN FloorValLoop(r, [hp EXCEPT ![r.data_][i + 1] = StdMax(At(r, hp, i), floor_val)],
                    floor_val, i + 1)
  ELSE hp
\* ApplyFloor(floor_val, floored_count) with a count
RECURSIVE FloorCountLoop(_, _, _, _)
FloorCountLoop(r, st, floor_val, i) ==
  IF i < r.dim_
  THEN FloorCountLoop(r,
         IF FLess(At(r, st.hp, i), floor_val)
         THEN [hp |-> [st.hp EXCEPT ![r.data_][i * r.stride_ + 1] = floor_val],
               count |-> st.count + 1]
         ELSE st, floor_val, i + 1)
  ELSE st
\* VectorBase<Real>::ApplyFloor(floor_val, floored_count); counted says that
\* floored_count is not nullptr, count is what *floored_count receives
VectorBase_ApplyFloorVal(r, hp, floor_val, counted) ==
  IF ~counted THEN [hp |-> FloorValLoop(r, hp, floor_val, 0), count |-> 0]
  ELSE FloorCountLoop(r, [hp |-> hp, count |-> 0], floor_val, 0)

\* ApplyCeiling(ceil_val, nullptr)
RECURSIVE CeilValLoop(_, _, _, _)
CeilValLoop(r, hp, ceil_val, i) ==
  IF i < r.dim_
  THEN CeilValLoop(r, [hp EXCEPT ![r.data_][i * r.stride_ + 1] =
                         StdMin(At(r, hp, i), ceil_val)], ceil_val, i + 1)
  ELSE hp
\* the loop body of ApplyCeiling(ceil_val, ceiled_count) with a count
CeilCountStep(r, st, ceil_val, i) ==
  IF FLess(ceil_val, At(r, st.hp, i))
  THEN [hp |-> [st.hp EXCEPT ![r.data_][i * r.stride_ + 1] = ceil_val],
        count |-> st.count + 1]
  ELSE st
RECURSIVE CeilCountLoop(_, _, _, _)
CeilCountLoop(r, st, ceil_val, i) ==
  IF i < r.dim_ THEN CeilCountLoop(r, CeilCountStep(r, st, ceil_val, i), ceil_val, i + 1)
  ELSE st
\* VectorBase<Real>::ApplyCeiling(ceil_val, ceiled_count)
VectorBase_ApplyCeiling(r, hp, ceil_val, counted) ==
  IF ~counted THEN [hp |-> CeilValLoop(r, hp, ceil_val, 0), count |-> 0]
  ELSE CeilCountLoop(r, [hp |-> hp, count |-> 0], ceil_val, 0)

\* ------------------------------------------------------------- LogSumExp
\* The logarithms are taken to base 2.  kMinLogDiffFloat and
\* kMinLogDiffDouble are the logarithms of the two machine epsilons, here
\* those of the model's float and double.
kMinLogDiffFloat == -4
kMinLogDiffDouble == -8
\* Exp(d), in units of 2^-ExpScale; it underflows to 0 below one unit
Exp(d) == IF d < -ExpScale THEN 0 ELSE 2 ^ (d + ExpScale)
\* the conversion of an element of a Vector<Real = k> to BaseFloat = bf
ToBaseFloat(k, bf, x) == IF k = "D" /\ bf = "F" THEN Fl(x) ELSE x
\* arithmetic in Real = k: a double holds every number of the model exactly
RealAdd(k, x, y) == IF k = "F" THEN FAdd(x, y) ELSE x + y
\* the cutoff of LogSumExp
LogSumExpCutoff(k, max_elem, prune) ==
  IF prune > 0 /\ RealAdd(k, max_elem, -prune) >
                    RealAdd(k, max_elem, IF k = "F" THEN kMinLogDiffFloat ELSE kMinLogDiffDouble)
  THEN RealAdd(k, max_elem, -prune)
  ELSE RealAdd(k, max_elem, IF k = "F" THEN kMinLogDiffFloat ELSE kMinLogDiffDouble)
\* the loop of LogSumExp: for every element whether it is added and the
\* argument f - max_elem of its Exp, and the sum of the terms
RECURSIVE LogSumExpLoop(_, _, _, _, _, _, _)
LogSumExpLoop(r, hp, k, bf, cut, i, st) ==
  LET f == ToBaseFloat(k, bf, At(r, hp, i))
      max_elem == VectorBase_Max(r, hp)
  IN IF i < r.dim_
     THEN LogSumExpLoop(r, hp, k, bf, cut, i + 1,
            IF f >= cut
            THEN [terms |-> Append(st.terms, [in |-> TRUE, d |-> f - max_elem]),
                  sum |-> st.sum + Exp(f - max_elem)]
            ELSE [terms |-> Append(st.terms, [in |-> FALSE, d |-> 0]), sum |-> st.sum])
     ELSE st
\* VectorBase<Real>::LogSumExp(prune) on a vector of finite elements: the
\* value returned is max_elem + Log(sum_relto_max_elem)
VectorBase_LogSumExp(r, hp, k, bf, prune) ==
  [max_elem |-> VectorBase_Max(r, hp)] @@
  LogSumExpLoop(r, hp, k, bf, LogSumExpCutoff(k, VectorBase_Max(r, hp), prune), 0,
                [terms |-> <<>>, sum |-> 0])

\* ------------------------------------------- AddRowSumMat, AddColSumMat
\* A matrix is [rows, cols, d], d[i][j] being the element of row i - 1 and
\* column j - 1.
\* the element k of op(A) * ones, A being the block of n rows (kTrans) or
\* columns (kNoTrans) of M that starts at the row ro and the column co
RECURSIVE TimesOnes(_, _, _, _, _, _)
TimesOnes(M, trans, ro, co, k, n) ==
  IF n = 0 THEN 0
  ELSE FAdd(TimesOnes(M, trans, ro, co, k, n - 1),
            FMul(IF trans = kTrans THEN M.d[ro + n][co + k + 1]
                 ELSE M.d[ro + k + 1][co + n], 1))
\* cblas_Xgemv(trans, rows, cols, alpha, A, stride, ones, 1, beta, y, incy):
\* y = alpha * op(A) * ones + beta * y, where beta = 0 sets y to zero first
cblas_Xgemv(trans, rows, cols, alpha, M, ro, co, beta, y, incy) ==
  [c \in 1..Len(y) |->
     IF (c - 1) % incy = 0 /\ (c - 1) \div incy < (IF trans = kTrans THEN cols ELSE rows)
     THEN FAdd(FMul(alpha, TimesOnes(M, trans, ro, co, (c - 1) \div incy,
                                     IF trans = kTrans THEN rows ELSE cols)),
               IF beta = 0 THEN 0 ELSE FMul(beta, y[c]))
     ELSE y[c]]
\* the loop of AddRowSumMat from row_offset on
RECURSIVE RowSumLoop(_, _, _, _, _, _)
RowSumLoop(r, hp, alpha, M, beta, row_offset) ==
  IF row_offset < M.rows
  THEN RowSumLoop(r,
         IF r.dim_ = 0 THEN hp
         ELSE [hp EXCEPT ![r.data_] =
                 cblas_Xgemv(kTrans,
                             IF OnesLen < M.rows - row_offset THEN OnesLen
                             ELSE M.rows - row_offset,
                             M.cols, alpha, M, row_offset, 0, beta, @, r.stride_)],
         alpha, M, 1, row_offset + OnesLen)
  ELSE hp
\* VectorBase<Real>::AddRowSumMat(alpha, M, beta)
VectorBase_AddRowSumMat(r, hp, alpha, M, beta) ==
  IF ~(r.dim_ = M.cols) THEN Res(r, hp, "assert")
  ELSE Res(r, RowSumLoop(r, hp, alpha, M, beta, 0), "ok")
\* the loop of AddColSumMat from col_offset on
RECURSIVE ColSumLoop(_, _, _, _, _, _)
ColSumLoop(r, hp, alpha, M, beta, col_offset) ==
  IF col_offset < M.cols
  THEN ColSumLoop(r,
         IF r.dim_ = 0 THEN hp
         ELSE [hp EXCEPT ![r.data_] =
                 cblas_Xgemv(kNoTrans, M.rows,
                             IF OnesLen < M.cols - col_offset THEN OnesLen
                             ELSE M.cols - col_offset,
                             alpha, M, 0, col_offset, beta, @, r.stride_)],
         alpha, M, 1, col_offset + OnesLen)
  ELSE hp
\* VectorBase<Real>::AddColSumMat(alpha, M, beta)
VectorBase_AddColSumMat(r, hp, alpha, M, beta) ==
  IF ~(r.dim_ = M.rows) THEN Res(r, hp, "assert")
  ELSE Res(r, ColSumLoop(r, hp, alpha, M, beta, 0), "ok")

\* ------------------------------------------------------------ the calls
\* what a file holds after Write of a vector of precision k with elements x
Stored(k, x) ==
  VectorBase_Write([data_ |-> 1, dim_ |-> Len(x), stride_ |-> 1],
                   [a \in Addrs |-> x], <<>>, k)

\* the view of v's buffer with element step s: elements 0, s, 2s, ...
SubVector(r, s) ==
  [data_ |-> r.data_, dim_ |-> (r.dim_ + s - 1) \div s, stride_ |-> s]

\* what fresh, uninitialized storage may hold
Garbage(k) == [1..MaxDim -> Vals(k)]
\* the same for storage the code is about to fill: the largest value in every cell
TmpGarbage == {[i \in 1..MaxDim |-> 2 * (MaxVal \div 2)]}
InRange(hp) == \A a \in Addrs : \A i \in 1..Len(hp[a]) : hp[a][i] <= MaxVal

\* the record of the last call: the operation, its receiver v (and w, the
\* other vector of a Swap), its arguments, its outcome, the receiver's
\* dim_ before the call, and the stored vector a Read took from the stream
NoCall ==
  [op |-> "none", v |-> "a", w |-> "a", n |-> 0, rt |-> "none", add |-> FALSE,
   s |-> 1, err |-> "ok", pdim |-> 0, sk |-> "none", sx |-> <<>>]

Called(op, v, err) ==
  [NoCall EXCEPT !.op = op, !.v = v, !.w = v, !.err = err,
                 !.pdim = vec[v].dim_]

Resize(v, dim, rt) ==
  \E g \in IF rt = "kUndefined" THEN Garbage(KindOf(v)) ELSE TmpGarbage :
  \E res \in {Vector_Resize(vec[v], heap, dim, rt, g)} :
    /\ vec' = [vec EXCEPT ![v] = res.r]
    /\ heap' = res.hp
    /\ last' = [Called("Resize", v, res.err) EXCEPT !.n = dim, !.rt = rt]
    /\ UNCHANGED <<stream, written, call>>

Destroy(v) ==
  \E res \in {Vector_Destroy(vec[v], heap)} :
  /\ vec' = [vec EXCEPT ![v] = res.r]
  /\ heap' = res.hp
  /\ last' = Called("Destroy", v, res.err)
  /\ UNCHANGED <<stream, written, call>>

Swap(v, w) ==
  \E sw \in {Vector_Swap(vec[v], vec[w])} :
  /\ KindOf(v) = KindOf(w)
  /\ v # w
  /\ vec' = [vec EXCEPT ![v] = sw.r, ![w] = sw.o]
  /\ last' = [Called("Swap", v, "ok") EXCEPT !.w = w]
  /\ UNCHANGED <<heap, stream, written, call>>

RemoveElement(v, i) ==
  \E res \in {Vector_RemoveElement(vec[v], heap, i)} :
  /\ vec' = [vec EXCEPT ![v] = res.r]
  /\ heap' = res.hp
  /\ last' = [Called("RemoveElement", v, res.err) EXCEPT !.n = i]
  /\ UNCHANGED <<stream, written, call>>

\* a file that holds one stored vector of precision k with elements x
File(k, x) == [k |-> k, x |-> x, is |-> Stored(k, x)]

\* every such file
AllFiles ==
  UNION {{File(k, x) : x \in UNION {[1..n -> Vals(k)] : n \in 0..MaxDim}} :
           k \in {"F", "D"}}

\* the files of any precision and length whose elements are all the largest
\* value of the precision
Files == {File(k, [i \in 1..n |-> Convert(k, MaxVal)]) : k \in {"F", "D"}, n \in 0..MaxDim}

\* v.Read(is, binary = true, add) from the file f
ReadFrom(v, add, f) ==
  \E g \in TmpGarbage :
  \E res \in {Vector_Read(vec[v], heap, f.is, KindOf(v), add, g)} :
    /\ InRange(res.hp)
    /\ vec' = [vec EXCEPT ![v] = res.r]
    /\ heap' = res.hp
    /\ last' = [Called("Read", v, res.err) EXCEPT !.add = add, !.sk = f.k, !.sx = f.x]
    /\ UNCHANGED <<stream, written, call>>

ReadFile(v, add) == \E f \in Files : ReadFrom(v, add, f)

ReadAny(v, add) == \E f \in AllFiles : ReadFrom(v, add, f)

\* SubVector(v, step s).Read(is, binary = true, add): VectorBase<Real>::Read
ReadView(v, s, add) ==
  \E f \in AllFiles : \E g \in TmpGarbage :
  \E res \in {VectorBase_Read(SubVector(vec[v], s), heap, f.is, KindOf(v), add, g)} :
    /\ InRange(res.hp)
    /\ heap' = res.hp
    /\ last' = [Called("ReadView", v, res.err) EXCEPT
                  !.add = add, !.s = s, !.pdim = SubVector(vec[v], s).dim_,
                  !.sk = f.k, !.sx = f.x]
    /\ UNCHANGED <<vec, stream, written, call>>

\* the raw elements now in the stream
NumStored == Cardinality({i \in 1..Len(stream) : stream[i].t \in {"F", "D"}})

\* v.Write(os, binary = true) onto the end of the stream
Write(v) ==
  /\ Len(written) < MaxStored
  /\ NumStored + vec[v].dim_ <= MaxDim
  /\ stream' = VectorBase_Write(vec[v], heap, stream, KindOf(v))
  /\ written' = Append(written, [k |-> KindOf(v), x |-> Elems(vec[v], heap)])
  /\ last' = Called("Write", v, "ok")
  /\ UNCHANGED <<vec, heap, call>>

\* the stored vector at the front of the stream
Consumed == IF written = <<>> THEN [k |-> "none", x |-> <<>>] ELSE Head(written)

\* v.Read(is, binary = true, add = false) from the stream
Read(v) ==
  \E g \in TmpGarbage :
  \E res \in {Vector_Read(vec[v], heap, stream, KindOf(v), FALSE, g)} :
    /\ vec' = [vec EXCEPT ![v] = res.r]
    /\ heap' = res.hp
    /\ stream' = res.is
    /\ written' = IF written = <<>> THEN written ELSE Tail(written)
    /\ last' = [Called("Read", v, res.err) EXCEPT !.sk = Consumed.k, !.sx = Consumed.x]
    /\ UNCHANGED call

\* the element values a text stream is written from: finite values of
\* either sign, the infinities and NaN
TextVals(k) == Vals(k) \cup {-x : x \in Vals(k)} \cup {Infinity, -Infinity, NaN}

\* v.Resize(dim, kUndefined) where the fresh storage may hold any value
ResizeText(v, dim) ==
  \E g \in [1..MaxDim -> TextVals(KindOf(v))] :
  \E res \in {Vector_Resize(vec[v], heap, dim, "kUndefined", g)} :
    /\ vec' = [vec EXCEPT ![v] = res.r]
    /\ heap' = res.hp
    /\ last' = [Called("Resize", v, res.err) EXCEPT !.n = dim, !.rt = "kUndefined"]
    /\ UNCHANGED <<stream, written, call>>

\* what a stream holds after text Write of a vector with elements x
StoredText(x) ==
  VectorBase_WriteText([data_ |-> 1, dim_ |-> Len(x), stride_ |-> 1],
                       [a \in Addrs |-> x], <<>>)

\* the elements written to the stream and not yet read
RECURSIVE NumWritten(_)
NumWritten(w) == IF w = <<>> THEN 0 ELSE Len(Head(w).x) + NumWritten(Tail(w))

\* v.Write(os, binary = false) onto the end of the stream
WriteText(v) ==
  /\ Len(written) < MaxStored
  /\ NumWritten(written) + vec[v].dim_ <= MaxDim
  /\ stream' = VectorBase_WriteText(vec[v], heap, stream)
  /\ written' = Append(written, [k |-> KindOf(v), x |-> Elems(vec[v], heap)])
  /\ last' = Called("WriteText", v, "ok")
  /\ UNCHANGED <<vec, heap, call>>

\* v.Read(is, binary = false, add = false) from the stream; a Read that
\* fails throws, and the caller gives up the stream
ReadText(v) ==
  \E g \in TmpGarbage :
  \E res \in {Vector_ReadText(vec[v], heap, stream, KindOf(v), g)} :
    /\ vec' = [vec EXCEPT ![v] = res.r]
    /\ heap' = res.hp
    /\ stream' = IF res.err = "ok" THEN res.is ELSE <<>>
    /\ written' = IF written = <<>> \/ res.err # "ok" THEN <<>> ELSE Tail(written)
    /\ last' = Called("ReadText", v, res.err)
    /\ UNCHANGED call

\* the pieces text files are made of, and every file of up to MaxPieces pieces
Pieces ==
  {<<"[", " ">>, <<"[">>, <<"]">>, <<" ">>, <<"\n">>, <<"\r">>, <<"1">>, <<"-">>,
   <<"I", "n", "f">>, <<"n", "a", "n">>, <<"x">>}
RECURSIVE Flatten(_)
Flatten(ps) == IF ps = <<>> THEN <<>> ELSE Head(ps) \o Flatten(Tail(ps))
TextFiles == {Flatten(ps) : ps \in UNION {[1..n -> Pieces] : n \in 0..MaxPieces}}

\* a text file is opened for reading
OpenText ==
  /\ stream = <<>>
  /\ last.op # "ReadTextFile"
  /\ \E f \in TextFiles : stream' = f
  /\ last' = [NoCall EXCEPT !.op = "OpenText"]
  /\ UNCHANGED <<vec, heap, written, call>>

\* v.Read(is, binary = false, add = false) from the file just opened
ReadTextFile(v) ==
  /\ last.op = "OpenText"
  /\ \E g \in TmpGarbage :
     \E res \in {Vector_ReadText(vec[v], heap, stream, KindOf(v), g)} :
       /\ vec' = [vec EXCEPT ![v] = res.r]
       /\ heap' = res.hp
       /\ last' = [Called("ReadTextFile", v, res.err) EXCEPT !.sx = stream]
  /\ stream' = <<>>
  /\ UNCHANGED <<written, call>>

\* the calls of the arithmetic operations; a call leaves its dimensions
\* and its outcome in the variable call
Dims == 0..MaxDim
Mats == [rows : 0..MaxMatDim, cols : 0..MaxMatDim]
Trans == {kNoTrans, kTrans}
NoArgs ==
  [op |-> "none", dim |-> 0, vdim |-> 0, rdim |-> 0, same |-> FALSE,
   M |-> [rows |-> 0, cols |-> 0], trans |-> kNoTrans,
   N |-> [rows |-> 0, cols |-> 0], transN |-> kNoTrans,
   err |-> "ok", wrote |-> 0, oob |-> FALSE]

Ops(c, out) ==
  /\ call' = [c EXCEPT !.err = out.err, !.wrote = out.wrote]
  /\ UNCHANGED <<vec, heap, stream, written, last>>

CallVecVec ==
  \E a \in Dims, b \in Dims :
    Ops([NoArgs EXCEPT !.op = "VecVec", !.dim = a, !.vdim = b], VecVec(a, b))

CallAddVec ==
  \E d \in Dims, v \in Dims, same \in BOOLEAN :
    /\ same => d = v
    /\ Ops([NoArgs EXCEPT !.op = "AddVec", !.dim = d, !.vdim = v, !.same = same],
           AddVec(d, v, same))

CallMulElements ==
  \E d \in Dims, v \in Dims :
    Ops([NoArgs EXCEPT !.op = "MulElements", !.dim = d, !.vdim = v], MulElements(d, v))

CallDivElements ==
  \E d \in Dims, v \in Dims :
    Ops([NoArgs EXCEPT !.op = "DivElements", !.dim = d, !.vdim = v], DivElements(d, v))

CallCopyFromVec ==
  \E d \in Dims, v \in Dims :
    Ops([NoArgs EXCEPT !.op = "CopyFromVec", !.dim = d, !.vdim = v], CopyFromVec(d, v))

CallApplyFloor ==
  \E d \in Dims, v \in Dims :
    Ops([NoArgs EXCEPT !.op = "ApplyFloor", !.dim = d, !.vdim = v], ApplyFloor(d, v))

CallAddVecVec ==
  \E d \in Dims, v \in Dims, r \in Dims, same \in BOOLEAN :
    /\ same => (d = v \/ d = r)
    /\ Ops([NoArgs EXCEPT !.op = "AddVecVec", !.dim = d, !.vdim = v, !.rdim = r,
                          !.same = same], AddVecVec(d, v, r, same))

CallAddVecDivVec ==
  \E d \in Dims, v \in Dims, r \in Dims :
    Ops([NoArgs EXCEPT !.op = "AddVecDivVec", !.dim = d, !.vdim = v, !.rdim = r],
        AddVecDivVec(d, v, r))

CallAddVec2 ==
  \E d \in Dims, v \in Dims :
    Ops([NoArgs EXCEPT !.op = "AddVec2", !.dim = d, !.vdim = v], AddVec2(d, v))

CallAddMatVec ==
  \E d \in Dims, v \in Dims, M \in Mats, t \in Trans, same \in BOOLEAN :
    /\ same => d = v
    /\ Ops([NoArgs EXCEPT !.op = "AddMatVec", !.dim = d, !.vdim = v, !.M = M,
                          !.trans = t, !.same = same], AddMatVec(d, M, t, v, same))

CallAddSpVec ==
  \E d \in Dims, v \in Dims, n \in 0..MaxMatDim, same \in BOOLEAN :
    /\ same => d = v
    /\ Ops([NoArgs EXCEPT !.op = "AddSpVec", !.dim = d, !.vdim = v,
                          !.M = [rows |-> n, cols |-> n], !.same = same],
           AddSpVec(d, [rows |-> n, cols |-> n], v, same))

CallAddDiagMat2 ==
  \E d \in Dims, M \in Mats, t \in Trans :
    Ops([NoArgs EXCEPT !.op = "AddDiagMat2", !.dim = d, !.M = M, !.trans = t],
        AddDiagMat2(d, M, t))

CallAddDiagMatMat ==
  \E d \in Dims, M \in Mats, t \in Trans, N \in Mats, tN \in Trans :
    \E out \in {AddDiagMatMat(d, M, t, N, tN)} :
      /\ call' = [NoArgs EXCEPT !.op = "AddDiagMatMat", !.dim = d, !.M = M, !.trans = t,
                                !.N = N, !.transN = tN, !.err = out.err,
                                !.wrote = out.wrote, !.oob = out.oob]
      /\ UNCHANGED <<vec, heap, stream, written, last>>

\* the state after construction: every vector is built empty
\* the calls of the numeric operations: the receiver has the elements x at
\* step s of a buffer whose other cells hold pad; a call leaves its
\* arguments and its outcome in the variable call, and Return forgets them
Strides == 1..MaxStride
Pads == {-FltMax, FltMax}
View(x, s) ==
  [data_ |-> IF x = <<>> THEN NULL ELSE 1, dim_ |-> Len(x), stride_ |-> s]
Cells(x, s, pad) ==
  [c \in 1..(Len(x) * s) |-> IF (c - 1) % s = 0 THEN x[(c - 1) \div s + 1] ELSE pad]
Mem(x, s, pad) == [a \in Addrs |-> IF a = 1 THEN Cells(x, s, pad) ELSE <<>>]
SeqsUpTo(S, n) == UNION {[1..m -> S] : m \in 0..n}
Num(c) ==
  /\ call' = c
  /\ UNCHANGED <<vec, heap, stream, written, last>>
Return ==
  /\ call.op # "none"
  /\ call' = NoArgs
  /\ UNCHANGED <<vec, heap, stream, written, last>>

NormVals == {-4, -1, 0, 2, FltMax}
NormPowers == {-1, 0, 1, 2, 3, Infinity}
CallNorm ==
  /\ call.op = "none"
  /\ \E x \in SeqsUpTo(NormVals, MaxDim), s \in Strides, pad \in Pads, p \in NormPowers :
       Num([op |-> "Norm", x |-> x, s |-> s, p |-> p,
            out |-> VectorBase_Norm(View(x, s), Mem(x, s, pad), p)])

\* index is the caller's variable, unset before the call
ExtVals == {-Infinity, -1, 2, Infinity}
Unset == {-1, MaxLen}
CallMax ==
  /\ call.op = "none"
  /\ \E x \in SeqsUpTo(ExtVals, MaxLen), s \in Strides, pad \in Pads, index \in Unset :
       Num([op |-> "Max", x |-> x, s |-> s, index |-> index,
            out |-> VectorBase_MaxIndex(View(x, s), Mem(x, s, pad), index),
            plain |-> VectorBase_Max(View(x, s), Mem(x, s, pad))])
CallMin ==
  /\ call.op = "none"
  /\ \E x \in SeqsUpTo(ExtVals, MaxLen), s \in Strides, pad \in Pads, index \in Unset :
       Num([op |-> "Min", x |-> x, s |-> s, index |-> index,
            out |-> VectorBase_MinIndex(View(x, s), Mem(x, s, pad), index),
            plain |-> VectorBase_Min(View(x, s), Mem(x, s, pad))])

\* a second vector, the argument of a call, in a buffer of its own
View2(x, s) ==
  [data_ |-> IF x = <<>> THEN NULL ELSE 2, dim_ |-> Len(x), stride_ |-> s]
Mem2(x, s, v, vs, pad) ==
  [a \in Addrs |-> IF a = 1 THEN Cells(x, s, pad)
                   ELSE IF a = 2 THEN Cells(v, vs, pad) ELSE <<>>]
\* what a call leaves: its outcome and the two buffers
Left(res) == [err |-> res.err, data |-> res.hp[1], vdata |-> res.hp[2]]

FloorVals == {-Infinity, -1, 0, 2}
CallApplyFloorVec ==
  /\ call.op = "none"
  /\ \E x \in SeqsUpTo(FloorVals, MaxDim), f \in SeqsUpTo(FloorVals, MaxDim),
        s \in Strides, fs \in Strides, pad \in Pads :
       \E res \in {VectorBase_ApplyFloor(View(x, s), Mem2(x, s, f, fs, pad), View2(f, fs))} :
         Num([op |-> "ApplyFloor", x |-> x, s |-> s, v |-> f, vs |-> fs, pad |-> pad,
              out |-> Left(res), num_floored |-> res.num_floored])

\* RandUniform(): a draw from [0, 1)
Draws == {[num |-> k, den |-> MaxDraw] : k \in 0..(MaxDraw - 1)}
CatVals == {-1, 0, 1, 2}
CallRandCategorical ==
  /\ call.op = "none"
  /\ \E x \in SeqsUpTo(CatVals, MaxLen), s \in Strides, pad \in Pads, u \in Draws :
       Num([op |-> "RandCategorical", x |-> x, s |-> s, u |-> u,
            sum |-> VectorBase_Sum(View(x, s), Mem(x, s, pad)),
            out |-> VectorBase_RandCategorical(View(x, s), Mem(x, s, pad), u)])

\* what a call on the receiver alone leaves: its outcome and the buffer
Left1(res) == [err |-> res.err, data |-> res.hp[1]]
PowVals == {-FltMax, -2, -1, 0, 1, 2, FltMax}
Powers ==
  {Power(1, 1), Power(2, 1), Power(1, 2), Power(-1, 1), Power(-2, 1), Power(3, 1),
   Power(3, 2)}
CallApplyPow ==
  /\ call.op = "none"
  /\ \E x \in SeqsUpTo(PowVals, MaxDim), s \in Strides, pad \in Pads, power \in Powers :
       Num([op |-> "ApplyPow", x |-> x, s |-> s, pad |-> pad, power |-> power,
            out |-> Left1(VectorBase_ApplyPow(View(x, s), Mem(x, s, pad), power))])
CallApplyPowAbs ==
  /\ call.op = "none"
  /\ \E x \in SeqsUpTo(PowVals, MaxDim), s \in Strides, pad \in Pads, power \in Powers,
        include_sign \in BOOLEAN :
       Num([op |-> "ApplyPowAbs", x |-> x, s |-> s, pad |-> pad, power |-> power,
            include_sign |-> include_sign,
            out |-> Left1(VectorBase_ApplyPowAbs(View(x, s), Mem(x, s, pad), power,
                                                 include_sign))])

\* AddVec(alpha, v) on elements: v is a second vector, or with same the
\* receiver itself; undo says that the call follows an AddVec(-alpha, v) on
\* the same two vectors, before which the receiver held orig
AddVals == {-1, 0, 1, 2, FltMax}
Alphas == {-1, 1, 2}
CallAddVecNum ==
  /\ call.op = "none"
  /\ \E x \in SeqsUpTo(AddVals, MaxDim), v \in SeqsUpTo(AddVals, MaxDim),
        s \in Strides, vs \in Strides, alpha \in Alphas, same \in BOOLEAN :
       /\ same => (v = x /\ vs = s)
       /\ Num([op |-> "AddVec", x |-> x, s |-> s, v |-> v, vs |-> vs, pad |-> FltMax,
               alpha |-> alpha, same |-> same, undo |-> FALSE, orig |-> x,
               out |-> Left(VectorBase_AddVec(
                              View(x, s), Mem2(x, s, v, vs, FltMax), alpha,
                              IF same THEN View(x, s) ELSE View2(v, vs), same))])
\* the next call on the vectors the last AddVec left: AddVec(-alpha, v)
CallAddVecBack ==
  /\ call.op = "AddVec" /\ ~call.undo /\ ~call.same /\ call.out.err = "ok"
  /\ \E hp \in {[a \in Addrs |-> IF a = 1 THEN call.out.data
                                 ELSE IF a = 2 THEN call.out.vdata ELSE <<>>]} :
       Num([call EXCEPT
              !.x = Elems(View(call.x, call.s), hp),
              !.alpha = -call.alpha, !.undo = TRUE,
              !.out = Left(VectorBase_AddVec(View(call.x, call.s), hp, -call.alpha,
                                             View2(call.v, call.vs), FALSE))])

\* Init(dim) on a Vector<float> or a Vector<double>
CallInit ==
  /\ call.op = "none"
  /\ \E dim \in IndexT, k \in {"F", "D"}, avail \in BOOLEAN :
       Num([op |-> "Init", dim |-> dim, k |-> k, avail |-> avail,
            out |-> InitRequest(dim, k, avail)])

\* CopyFromVec(v) on elements, and CopyFromVec<OtherReal> on the same
\* buffers with elements that convert without change
CopyVals == {0, 1, 2}
CallCopyFromVecNum ==
  /\ call.op = "none"
  /\ \E x \in SeqsUpTo(CopyVals, MaxDim), v \in SeqsUpTo(CopyVals, MaxDim),
        s \in Strides, vs \in Strides, pad \in Pads :
       Num([op |-> "CopyFromVec", x |-> x, s |-> s, v |-> v, vs |-> vs, pad |-> pad,
            out |-> Left(VectorBase_CopyFromVec(View(x, s), Mem2(x, s, v, vs, pad),
                                                View2(v, vs))),
            other |-> Left(CopyFromVecOther(View(x, s), Mem2(x, s, v, vs, pad), "D",
                                            View2(v, vs)))])

\* ApplyFloor(floor_val, floored_count) and ApplyCeiling(ceil_val,
\* ceiled_count), with and without a place for the count
ClampVals == {-1, 0, 2}
CallApplyFloorVal ==
  /\ call.op = "none"
  /\ \E x \in SeqsUpTo(ClampVals, ClampLen), s \in Strides, pad \in Pads,
        val \in ClampVals, counted \in BOOLEAN :
       \E res \in {VectorBase_ApplyFloorVal(View(x, s), Mem(x, s, pad), val, counted)} :
         Num([op |-> "ApplyFloorVal", x |-> x, s |-> s, pad |-> pad, val |-> val,
              counted |-> counted, data |-> res.hp[1], count |-> res.count])
CallApplyCeiling ==
  /\ call.op = "none"
  /\ \E x \in SeqsUpTo(ClampVals, ClampLen), s \in Strides, pad \in Pads,
        val \in ClampVals, counted \in BOOLEAN :
       \E res \in {VectorBase_ApplyCeiling(View(x, s), Mem(x, s, pad), val, counted)} :
         Num([op |-> "ApplyCeiling", x |-> x, s |-> s, pad |-> pad, val |-> val,
              counted |-> counted, data |-> res.hp[1], count |-> res.count])

\* LogSumExp(prune) on a Vector<float> or a Vector<double>, in a build
\* whose BaseFloat is bf; a float holds the numbers that need no rounding
LogVals(k) == {x \in {0, 16, 20, 24, 25, 26, 27, 28} : k = "D" \/ Fl(x) = x}
Prunes == {-1, 0, 1, 2}
CallLogSumExp ==
  /\ call.op = "none"
  /\ \E k \in {"F", "D"}, bf \in {"F", "D"}, s \in Strides, pad \in Pads, prune \in Prunes :
       \E x \in SeqsUpTo(LogVals(k), MaxDim) :
         Num([op |-> "LogSumExp", x |-> x, s |-> s, k |-> k, bf |-> bf, prune |-> prune,
              out |-> VectorBase_LogSumExp(View(x, s), Mem(x, s, pad), k, bf, prune)])

\* AddRowSumMat(alpha, M, beta) and AddColSumMat(alpha, M, beta): the
\* summed dimension of M runs up to a block and one more, and the receiver
\* is as long as the other
SumVals == {0, 1}
Betas == {0, 1, 2}
Matrices(rows, cols) ==
  {[rows |-> rows, cols |-> cols, d |-> d] : d \in [1..rows -> [1..cols -> SumVals]]}
CallAddRowSumMat ==
  /\ call.op = "none"
  /\ \E rows \in 0..(OnesLen + 1), x \in SeqsUpTo(SumVals, MaxDim), s \in Strides,
        alpha \in {1, 2}, beta \in Betas :
       \E M \in Matrices(rows, Len(x)) :
         Num([op |-> "AddRowSumMat", x |-> x, s |-> s, pad |-> FltMax, alpha |-> alpha,
              M |-> M, beta |-> beta,
              out |-> Left1(VectorBase_AddRowSumMat(View(x, s), Mem(x, s, FltMax),
                                                    alpha, M, beta))])
CallAddColSumMat ==
  /\ call.op = "none"
  /\ \E cols \in 0..(OnesLen + 1), x \in SeqsUpTo(SumVals, MaxDim), s \in Strides,
        alpha \in {1, 2}, beta \in Betas :
       \E M \in Matrices(Len(x), cols) :
         Num([op |-> "AddColSumMat", x |-> x, s |-> s, pad |-> FltMax, alpha |-> alpha,
              M |-> M, beta |-> beta,
              out |-> Left1(VectorBase_AddColSumMat(View(x, s), Mem(x, s, FltMax),
                                                    alpha, M, beta))])

Init ==
  /\ heap = [a \in Addrs |-> <<>>]
  /\ vec = [v \in Vectors |-> NewVector(heap, 0, "kSetZero", <<>>).r]
  /\ stream = <<>>
  /\ written = <<>>
  /\ last = NoCall
  /\ call = NoArgs

NextOps ==
  \/ CallVecVec
  \/ CallAddVec
  \/ CallMulElements
  \/ CallDivElements
  \/ CallCopyFromVec
  \/ CallApplyFloor
  \/ CallAddVecVec
  \/ CallAddVecDivVec
  \/ CallAddVec2
  \/ CallAddMatVec
  \/ CallAddSpVec
  \/ CallAddDiagMat2
  \/ CallAddDiagMatMat

SpecOps == Init /\ [][NextOps]_vars

LifeVecs == {"a", "b"}
IOVecs == {"a", "d"}
ReadVecs == {"a"}

Next ==
  \/ \E v \in LifeVecs : \E dim \in 0..MaxDim : \E rt \in ResizeTypes : Resize(v, dim, rt)
  \/ \E v \in LifeVecs : Destroy(v)
  \/ \E v \in LifeVecs : \E w \in LifeVecs : Swap(v, w)
  \/ \E v \in LifeVecs : \E i \in 0..MaxDim : RemoveElement(v, i)
  \/ \E v \in LifeVecs : \E add \in BOOLEAN : ReadFile(v, add)

Spec == Init /\ [][Next]_vars

NextIO ==
  \/ \E v \in IOVecs : \E dim \in 0..MaxDim : Resize(v, dim, "kUndefined")
  \/ \E v \in IOVecs : Write(v)
  \/ \E v \in IOVecs : Read(v)

SpecIO == Init /\ [][NextIO]_vars

NextRead ==
  \/ \E v \in ReadVecs : \E dim \in 0..MaxDim : Resize(v, dim, "kUndefined")
  \/ \E v \in ReadVecs : \E add \in BOOLEAN : ReadAny(v, add)
  \/ \E v \in ReadVecs : \E s \in 1..2 : \E add \in BOOLEAN : ReadView(v, s, add)

SpecRead == Init /\ [][NextRead]_vars

TextVecs == {"a"}

NextText ==
  \/ \E v \in TextVecs : \E dim \in 0..MaxDim : ResizeText(v, dim)
  \/ \E v \in TextVecs : WriteText(v)
  \/ \E v \in TextVecs : ReadText(v)

SpecText == Init /\ [][NextText]_vars

NextParse ==
  \/ \E v \in TextVecs : \E dim \in 0..MaxDim : Resize(v, dim, "kUndefined")
  \/ OpenText
  \/ \E v \in TextVecs : ReadTextFile(v)

SpecParse == Init /\ [][NextParse]_vars

NextNum ==
  \/ CallNorm
  \/ CallMax
  \/ CallMin
  \/ CallApplyFloorVec
  \/ CallRandCategorical
  \/ CallApplyPow
  \/ CallApplyPowAbs
  \/ CallAddVecNum
  \/ CallAddVecBack
  \/ CallInit
  \/ CallCopyFromVecNum
  \/ CallApplyFloorVal
  \/ CallApplyCeiling
  \/ CallLogSumExp
  \/ CallAddRowSumMat
  \/ CallAddColSumMat
  \/ Return

SpecNum == Init /\ [][NextNum]_vars

\* ------------------------------------------------------------ properties
Zero(x) == \A i \in 1..Len(x) : x[i] = 0
Min2(m, n) == IF m < n THEN m ELSE n
SameAllocations == \A a \in Addrs : (heap'[a] = <<>>) <=> (heap[a] = <<>>)

\* C1: after any sequence of Init, Resize, Destroy, Swap, RemoveElement and
\* Read, every owning vector has data_ == NULL if and only if dim_ == 0.
C1_DataNullIffEmpty ==
  \A v \in Vectors : (vec[v].data_ = NULL) <=> (vec[v].dim_ = 0)

\* C2: Resize(n, kCopyData) on a vector of length m with elements x: if
\* m == 0 or n == 0 the result is the all-zero vector of length n; if n == m
\* the vector (pointer, length, contents) is unchanged; otherwise the result
\* has length n, keeps x[i] for i < min(m, n) and is 0 for m <= i < n.
C2_ResizeCopyData ==
  [][(last'.op = "Resize" /\ last'.rt = "kCopyData") =>
       LET v == last'.v
           n == last'.n
           m == vec[v].dim_
           x == Elems(vec[v], heap)
           y == Elems(vec'[v], heap')
       IN /\ last'.err = "ok"
          /\ vec'[v].dim_ = n
          /\ (m = 0 \/ n = 0) => Zero(y)
          /\ n = m => (vec'[v] = vec[v] /\ heap' = heap)
          /\ ~(m = 0 \/ n = 0 \/ n = m) =>
               /\ \A i \in 1..Min2(m, n) : y[i] = x[i]
               /\ \A i \in (m + 1)..n : y[i] = 0]_vars

C2_Witness ==
  /\ last.op = "Resize" /\ last.rt = "kCopyData" /\ last.err = "ok"
  /\ last.pdim = 1 /\ last.n = 2
  /\ Elems(vec[last.v], heap) = <<2, 0>>

\* C3: RemoveElement(i) with 0 <= i < length on x of length n leaves length
\* n - 1, x[j] for j < i and x[j + 1] for i <= j < n - 1, in the same
\* allocation (nothing allocated or freed); with i >= length the call fails
\* and the vector is not modified.
C3_RemoveElement ==
  [][last'.op = "RemoveElement" =>
       LET v == last'.v
           i == last'.n
           n == vec[v].dim_
           x == Elems(vec[v], heap)
           y == Elems(vec'[v], heap')
       IN IF i < n
          THEN /\ last'.err = "ok"
               /\ vec'[v].dim_ = n - 1
               /\ \A j \in 1..i : y[j] = x[j]
               /\ \A j \in (i + 1)..(n - 1) : y[j] = x[j + 1]
               /\ vec'[v].data_ = vec[v].data_ /\ vec'[v].data_ # NULL
               /\ SameAllocations
          ELSE /\ last'.err # "ok"
               /\ vec' = vec /\ heap' = heap]_vars

C3_Witness ==
  /\ last.op = "RemoveElement" /\ last.err = "ok"
  /\ last.pdim = 2 /\ last.n = 0
  /\ Elems(vec[last.v], heap) = <<2>>
  /\ heap[vec[last.v].data_] = <<2, 2>>

\* C4: Swap exchanges the data pointers and lengths of two owning vectors
\* and nothing else: each ends with the other's buffer, length and elements,
\* no buffer is allocated, freed or written, and a second Swap restores both.
C4_Swap ==
  [][last'.op = "Swap" =>
       LET a == last'.v
           b == last'.w
           again == Vector_Swap(vec'[a], vec'[b])
       IN /\ vec'[a].data_ = vec[b].data_ /\ vec'[a].dim_ = vec[b].dim_
          /\ vec'[b].data_ = vec[a].data_ /\ vec'[b].dim_ = vec[a].dim_
          /\ Elems(vec'[a], heap') = Elems(vec[b], heap)
          /\ Elems(vec'[b], heap') = Elems(vec[a], heap)
          /\ vec'[a].stride_ = vec[a].stride_ /\ vec'[b].stride_ = vec[b].stride_
          /\ \A v \in Vectors \ {a, b} : vec'[v] = vec[v]
          /\ heap' = heap
          /\ again.r = vec[a] /\ again.o = vec[b]]_vars

C4_Witness ==
  /\ last.op = "Swap" /\ last.v = "a" /\ last.w = "b" /\ last.pdim = 1
  /\ Elems(vec["a"], heap) = <<0, 2>>
  /\ Elems(vec["b"], heap) = <<2>>

\* C5: an owning vector has stride_ == 1 in every reachable state.
C5_StrideOne == \A v \in Vectors : vec[v].stride_ = 1

C5_Witness ==
  /\ last.op = "Read" /\ last.err = "ok" /\ last.pdim = 1
  /\ vec[last.v].dim_ = 2 /\ vec[last.v].stride_ = 1

\* the operations C6 names, and when their operand dimensions disagree
C6Ops ==
  {"VecVec", "AddVec", "MulElements", "DivElements", "CopyFromVec", "ApplyFloor",
   "AddVecVec", "AddVecDivVec", "AddVec2", "AddMatVec", "AddSpVec", "AddDiagMat2"}
OpRows(M, trans) == IF trans = kTrans THEN M.cols ELSE M.rows
OpCols(M, trans) == IF trans = kTrans THEN M.rows ELSE M.cols
Mismatch(c) ==
  CASE c.op \in {"AddVecVec", "AddVecDivVec"} -> c.dim # c.vdim \/ c.dim # c.rdim
    [] c.op = "AddMatVec" ->
         c.dim # OpRows(c.M, c.trans) \/ c.vdim # OpCols(c.M, c.trans)
    [] c.op = "AddSpVec" -> c.dim # c.M.rows \/ c.vdim # c.M.rows
    [] c.op = "AddDiagMat2" -> c.dim # OpRows(c.M, c.trans)
    [] OTHER -> c.dim # c.vdim

\* C6: a call of VecVec, AddVec, MulElements, DivElements, CopyFromVec,
\* ApplyFloor(vector), AddVecVec, AddVecDivVec, AddVec2, AddMatVec, AddSpVec
\* or AddDiagMat2 whose operand dimensions disagree with the receiver's
\* length (per the transpose flag) fails before any receiver element is
\* written; none truncates to the shorter length.
C6_SizeMismatchFails ==
  (call.op \in C6Ops /\ Mismatch(call)) => (call.err # "ok" /\ call.wrote = 0)

C6_Witness ==
  /\ call.op = "AddMatVec" /\ call.trans = kTrans
  /\ call.dim = 1 /\ call.vdim = 2 /\ call.M = [rows |-> 1, cols |-> 2]
  /\ call.err = "assert"

\* C7: AddDiagMatMat fails with a size-mismatch error when the receiver's
\* length differs from the row count of op(M) or the column count of op(N),
\* or when the summed-over dimensions disagree; it never reads M or N
\* outside their bounds.
C7_AddDiagMatMatChecks ==
  call.op = "AddDiagMatMat" =>
    /\ (call.dim # OpRows(call.M, call.trans)
        \/ call.dim # OpCols(call.N, call.transN)
        \/ OpCols(call.M, call.trans) # OpRows(call.N, call.transN)) => call.err # "ok"
    /\ ~call.oob

\* the receiver of the Read or ReadView of this step, before and after
Receiver(vs) ==
  IF last'.op = "ReadView" THEN SubVector(vs[last'.v], last'.s) ELSE vs[last'.v]

\* C8 as stated: Read in add mode, on the owning vector and on the view,
\* fails whenever the stored length differs from the receiver's length, for
\* every receiver length including 0.
C8_AddModeMismatchFails ==
  [][(last'.op \in {"Read", "ReadView"} /\ last'.add
        /\ Receiver(vec).dim_ # Len(last'.sx)) => last'.err # "ok"]_vars

\* C8 as amended: Read in add mode fails whenever the stored length differs
\* from the receiver's length, except that an owning vector of length 0 is
\* first resized (zero-filled) to the stored length; when the call does not
\* fail the receiver has the stored length and is old receiver + stored
\* vector (converted to the receiver's precision) elementwise.
C8_AddMode ==
  [][(last'.op \in {"Read", "ReadView"} /\ last'.add) =>
       LET r == Receiver(vec)
           m == r.dim_
           n == Len(last'.sx)
           x == Elems(r, heap)
           y == Elems(Receiver(vec'), heap')
       IN IF m # n /\ ~(last'.op = "Read" /\ m = 0)
          THEN last'.err # "ok"
          ELSE /\ last'.err = "ok"
               /\ Receiver(vec').dim_ = n
               /\ \A i \in 1..n :
                    y[i] = (IF m = 0 THEN 0 ELSE x[i]) + Convert(KindOf(last'.v), last'.sx[i])]_vars

C8_Witness ==
  /\ last.op = "Read" /\ last.add /\ last.err = "ok"
  /\ last.pdim = 2 /\ last.sk = "D" /\ last.sx = <<1, 2>>
  /\ Elems(vec[last.v], heap) = <<2, 2>>

\* C9: binary Write(v) followed by binary Read (add == false) into a
\* receiver of v's precision, whatever the receiver held, leaves the
\* receiver with v's length and element values, and takes exactly v's bytes
\* from the stream, so that vectors written in sequence are read in order.
C9_BinaryRoundTrip ==
  [][(last'.op = "Read" /\ written # <<>> /\ Head(written).k = KindOf(last'.v)) =>
       LET x == Head(written).x IN
       /\ last'.err = "ok"
       /\ vec'[last'.v].dim_ = Len(x)
       /\ Elems(vec'[last'.v], heap') = x
       /\ stream' = SubSeq(stream, Len(x) + 3, Len(stream))]_vars

C9_Witness ==
  /\ last.op = "Read" /\ last.err = "ok" /\ last.v = "d"
  /\ last.sk = "D" /\ last.sx = <<1>> /\ last.pdim = 0
  /\ Elems(vec["d"], heap) = <<1>>
  /\ Len(written) = 1

\* C10: binary Read (add == false) from a stream whose tag is the other
\* precision succeeds: the receiver gets the stored length (resized if it
\* differed) and the elementwise conversion of the stored elements, and the
\* stream is consumed exactly to the end of that stored vector.
C10_CrossPrecisionRead ==
  [][(last'.op = "Read" /\ written # <<>> /\ Head(written).k # KindOf(last'.v)) =>
       LET x == Head(written).x IN
       /\ last'.err = "ok"
       /\ vec'[last'.v].dim_ = Len(x)
       /\ \A i \in 1..Len(x) :
            Elems(vec'[last'.v], heap')[i] = Convert(KindOf(last'.v), x[i])
       /\ stream' = SubSeq(stream, Len(x) + 3, Len(stream))]_vars

C10_Witness ==
  /\ last.op = "Read" /\ last.err = "ok" /\ last.v = "a"
  /\ last.sk = "D" /\ last.sx = <<1, 2>> /\ last.pdim = 1
  /\ Elems(vec["a"], heap) = <<0, 2>>


\* C11: text Write(v) of an owning vector followed by text Read reproduces
\* v's length and element values, whatever the receiver held, and takes the
\* stream through the trailing newline, so that vectors written back to
\* back are read back in order.
C11_TextRoundTrip ==
  [][(last'.op = "ReadText" /\ written # <<>>) =>
       LET x == Head(written).x IN
       /\ last'.err = "ok"
       /\ vec'[last'.v].dim_ = Len(x)
       /\ Elems(vec'[last'.v], heap') = x
       /\ stream' = SubSeq(stream, Len(StoredText(x)) + 1, Len(stream))]_vars

\* the first token of a text stream, and what follows it up to the first ']'
FirstToken(is) == SubSeq(is, SkipSpace(is, 1), TokenEnd(is, SkipSpace(is, 1)) - 1)
Body(is) == SubSeq(is, TokenEnd(is, SkipSpace(is, 1)), Len(is))
Closing(b) ==
  IF \E j \in 1..Len(b) : b[j] = "]"
  THEN CHOOSE j \in 1..Len(b) : b[j] = "]" /\ \A i \in 1..(j - 1) : b[i] # "]"
  ELSE Len(b) + 1
\* the token of b that starts at j
TokenAt(b, j) == SubSeq(b, j, TokenEnd(b, j) - 1)
StartsNumber(t) == IsDigit(t[1]) \/ (t[1] = "-" /\ Len(t) > 1 /\ IsDigit(t[2]))
\* the ways a text stream can be malformed
WrongFirstToken(is) == FirstToken(is) \notin {<<"[">>, <<"[", "]">>}
NoClosing(is) == FirstToken(is) = <<"[">> /\ Closing(Body(is)) > Len(Body(is))
NewlineInside(is) ==
  /\ FirstToken(is) = <<"[">>
  /\ \E j \in 1..(Closing(Body(is)) - 1) : Body(is)[j] \in {"\n", "\r"}
JunkAfterNumber(is) ==
  /\ FirstToken(is) = <<"[">>
  /\ \E j \in 1..(Closing(Body(is)) - 1) :
       /\ IsDigit(Body(is)[j]) /\ j < Len(Body(is))
       /\ ~IsSpace(Body(is)[j + 1]) /\ Body(is)[j + 1] # "]" /\ ~IsDigit(Body(is)[j + 1])
NotANumber(is) ==
  /\ FirstToken(is) = <<"[">>
  /\ \E j \in 1..(Closing(Body(is)) - 1) :
       /\ ~IsSpace(Body(is)[j]) /\ (j = 1 \/ IsSpace(Body(is)[j - 1]))
       /\ ~StartsNumber(TokenAt(Body(is), j))
       /\ ~StrCaseEq(TokenAt(Body(is), j), <<"i", "n", "f">>)
       /\ ~StrCaseEq(TokenAt(Body(is), j), <<"i", "n", "f", "i", "n", "i", "t", "y">>)
       /\ ~StrCaseEq(TokenAt(Body(is), j), <<"n", "a", "n">>)
Malformed(is) ==
  \/ WrongFirstToken(is) \/ NoClosing(is) \/ NewlineInside(is)
  \/ JunkAfterNumber(is) \/ NotANumber(is)

\* C12: text-mode Vector::Read never returns successfully on a malformed
\* stream (first token neither "[" nor "[]", end of stream or a newline or
\* carriage return before the closing "]", a number followed by a character
\* that is neither white space nor "]", a non-numeric token other than
\* inf / infinity / nan in any case); on each of these failures the
\* receiver's length and contents are unchanged.
C12_MalformedTextFails ==
  [][(last'.op = "ReadTextFile" /\ Malformed(stream)) =>
       (last'.err = "error" /\ vec' = vec /\ heap' = heap)]_vars

C12_Witness ==
  /\ last.op = "ReadTextFile" /\ last.err = "error"
  /\ last.sx = <<"[", " ", "1", "\n", "]">>
  /\ Elems(vec[last.v], heap) = <<2, 0>>

\* ---------------------------------------------------------------- Norm
\* some term |x_i|^p of the general branch overflows
TermOverflows(x, p) == \E i \in 1..Len(x) : FPow(FAbs(x[i]), p) = HUGE_VAL

\* C13: Norm(p) for a general p, when some term |x_i|^p overflows to
\* infinity, does not fail: it returns the norm of the rescaled copy
\* multiplied back by the largest magnitude, a finite value.
C13_NormOverflowFallsBack ==
  (call.op = "Norm" /\ call.p \notin {0, 1, 2, Infinity} /\ call.p > 0
   /\ TermOverflows(call.x, call.p))
    => (call.out.err = "ok" /\ IsFinite(call.out.val))

\* C14: Norm(p) on an empty vector is an error for every p >= 0.
C14_NormEmptyFails ==
  (call.op = "Norm" /\ call.x = <<>> /\ call.p >= 0) => call.out.err # "ok"

\* ---------------------------------------------------------- Max and Min
Maximum(x) == CHOOSE v \in {x[i] : i \in 1..Len(x)} : \A i \in 1..Len(x) : x[i] <= v
Minimum(x) == CHOOSE v \in {x[i] : i \in 1..Len(x)} : \A i \in 1..Len(x) : x[i] >= v
FirstAt(x, v) == CHOOSE i \in 0..(Len(x) - 1) : x[i + 1] = v /\ \A j \in 0..(i - 1) : x[j + 1] # v

\* C15: Max(&index) / Min(&index) fail on an empty vector without writing
\* *index; on a non-empty vector of any length and stride they return the
\* largest / smallest element, set index to its first occurrence, and the
\* index-free Max() / Min() return the same value.
C15_MaxMinIndex ==
  call.op \in {"Max", "Min"} =>
    IF call.x = <<>>
    THEN call.out.err = "error" /\ call.out.index = call.index
    ELSE /\ call.out.err = "ok"
         /\ call.out.ans = IF call.op = "Max" THEN Maximum(call.x) ELSE Minimum(call.x)
         /\ call.out.index = FirstAt(call.x, call.out.ans)
         /\ call.plain = call.out.ans
C15_Witness ==
  /\ call.op = "Max" /\ call.s = 2
  /\ call.x = <<-1, 2, -1, -1, 2>>
  /\ call.out = [err |-> "ok", ans |-> 2, index |-> 1]

\* ------------------------------------------------------------ ApplyFloor
\* C16: ApplyFloor(floor_vec) with equal lengths, for any strides: every
\* element becomes the larger of itself and its floor, the count returned is
\* the number of elements that were below their floor, the cells between the
\* elements keep their values and floor_vec is unchanged.
C16_ApplyFloorVec ==
  (call.op = "ApplyFloor" /\ Len(call.x) = Len(call.v)) =>
    /\ call.out.err = "ok"
    /\ call.out.data =
         Cells([i \in 1..Len(call.x) |->
                  IF call.x[i] < call.v[i] THEN call.v[i] ELSE call.x[i]],
               call.s, call.pad)
    /\ call.num_floored = Cardinality({i \in 1..Len(call.x) : call.x[i] < call.v[i]})
    /\ call.out.vdata = Cells(call.v, call.vs, call.pad)
C16_Witness ==
  /\ call.op = "ApplyFloor" /\ call.s = 2 /\ call.vs = 2
  /\ call.x = <<-1, 2>> /\ call.v = <<0, 0>>
  /\ call.out.data = <<0, call.pad, 2, call.pad>>
  /\ call.num_floored = 1

\* ------------------------------------------------------- RandCategorical
\* x(0) + ... + x(i)
RECURSIVE Cumulative(_, _)
Cumulative(x, i) == IF i < 0 THEN 0 ELSE x[i + 1] + Cumulative(x, i - 1)

AbsToPower(x, power) ==
  IF power = Power(1, 2) THEN FSqrt(FAbs(x)) ELSE Pow(FAbs(x), power)
SignedAbsToPower(x, power) ==
  IF x < 0 THEN -AbsToPower(x, power) ELSE AbsToPower(x, power)

\* C18: ApplyPowAbs(power, include_sign) leaves |x|^power in every element
\* when include_sign is false and sign(x) |x|^power when it is true, for
\* the powers 1, 2, 0.5, negative and general positive ones.  (Zero elements
\* under a negative power, where |x|^power is not a number, are left out.)
C18_ApplyPowAbs ==
  (call.op = "ApplyPowAbs" /\ call.out.err = "ok") =>
    \A i \in 1..Len(call.x) :
      (call.power.num < 0 /\ call.x[i] = 0)
      \/ call.out.data[(i - 1) * call.s + 1] =
           IF call.include_sign THEN SignedAbsToPower(call.x[i], call.power)
           ELSE AbsToPower(call.x[i], call.power)

\* the value the element x gets under ApplyPow(power)
ToPower(x, power) ==
  IF power = Power(1, 1) THEN x
  ELSE IF power = Power(2, 1) THEN FMul(x, x)
  ELSE IF power = Power(1, 2) THEN FSqrt(x)
  ELSE Pow(x, power)

\* C19: ApplyPow(1) leaves the vector unchanged and ApplyPow(2) squares
\* every element, both without error; ApplyPow(0.5) fails if some element
\* is not >= 0; for any other power the call fails if some resulting element
\* is not finite and returns normally only when every result is finite.
C19_ApplyPow ==
  call.op = "ApplyPow" =>
    LET results == {ToPower(call.x[i], call.power) : i \in 1..Len(call.x)} IN
    IF call.power \in {Power(1, 1), Power(2, 1)}
    THEN /\ call.out.err = "ok"
         /\ \A i \in 1..Len(call.x) :
              call.out.data[(i - 1) * call.s + 1] = ToPower(call.x[i], call.power)
    ELSE IF call.power = Power(1, 2)
    THEN (\E i \in 1..Len(call.x) : ~FGeq(call.x[i], 0)) => call.out.err = "error"
    ELSE (call.out.err = "ok") <=> (\A v \in results : IsFinite(v))

\* ---------------------------------------------------------------- AddVec
\* the elements a call left in the receiver's buffer
Result(c) == [i \in 1..Len(c.x) |-> c.out.data[(i - 1) * c.s + 1]]
\* x(i) + alpha v(i) needs no rounding
Representable(x, alpha, v) ==
  \A i \in 1..Len(x) : IsFinite(x[i] + alpha * v[i]) /\ Fl(x[i] + alpha * v[i]) = x[i] + alpha * v[i]

C21_InitByteCount ==
  call.op = "Init" =>
    IF call.dim < 0 THEN call.out.err = "assert"
    ELSE IF call.dim = 0
    THEN call.out = [err |-> "ok", requested |-> -1, dim_ |-> 0, null |-> TRUE]
    ELSE /\ call.out.requested = call.dim * SizeOf(call.k)
         /\ ~call.avail => call.out.err = "bad_alloc"
         /\ call.avail => (call.out.err = "ok" /\ call.out.dim_ = call.dim)

\* ----------------------------------------------------------- CopyFromVec
\* C22: CopyFromVec(v) of the same precision and length copies the logical
\* elements for any strides of receiver and source: afterwards this(i) =
\* v(i) for every i, the cells between the receiver's elements are
\* unchanged, and the result is what the converting CopyFromVec leaves.
C22_CopyFromVecStrided ==
  (call.op = "CopyFromVec" /\ Len(call.x) = Len(call.v)) =>
    /\ call.out.err = "ok"
    /\ call.out.data = Cells(call.v, call.s, call.pad)
    /\ call.out = call.other

\* ------------------------------------------- ApplyFloor and ApplyCeiling
\* C23: ApplyFloor(floor_val, count) leaves the same vector with and
\* without a count pointer, for every stride: every element is the larger
\* of itself and floor_val, no other cell is written, and the count, when
\* asked for, is the number of elements below floor_val.  The same holds for
\* ApplyCeiling with the smaller of the two and the elements above ceil_val.
C23_ScalarFloorCeiling ==
  /\ call.op = "ApplyFloorVal" =>
       /\ call.data =
            Cells([i \in 1..Len(call.x) |->
                     IF call.x[i] < call.val THEN call.val ELSE call.x[i]],
                  call.s, call.pad)
       /\ call.counted =>
            call.count = Cardinality({i \in 1..Len(call.x) : call.x[i] < call.val})
  /\ call.op = "ApplyCeiling" =>
       /\ call.data =
            Cells([i \in 1..Len(call.x) |->
                     IF call.x[i] > call.val THEN call.val ELSE call.x[i]],
                  call.s, call.pad)
       /\ call.counted =>
            call.count = Cardinality({i \in 1..Len(call.x) : call.x[i] > call.val})

\* ------------------------------------------------------------- LogSumExp
\* the cutoff as the claim gives it
Cutoff(k, m, prune) ==
  IF prune > 0 /\ m - prune > m + (IF k = "F" THEN kMinLogDiffFloat ELSE kMinLogDiffDouble)
  THEN m - prune
  ELSE m + (IF k = "F" THEN kMinLogDiffFloat ELSE kMinLogDiffDouble)

\* C24: LogSumExp(prune) on a non-empty vector with maximum m adds
\* exp(x(i) - m) for the element x(i) if and only if x(i) >= cutoff, the
\* cutoff being m + kMinLogDiff or, for prune > 0 and if larger, m - prune;
\* the maximum is always added and the value returned is at least m.
C24_LogSumExp ==
  (call.op = "LogSumExp" /\ call.x # <<>>) =>
    /\ call.out.max_elem = Maximum(call.x)
    /\ \A i \in 1..Len(call.x) :
         /\ call.out.terms[i].in <=>
              call.x[i] >= Cutoff(call.k, Maximum(call.x), call.prune)
         /\ call.out.terms[i].in => call.out.terms[i].d = call.x[i] - Maximum(call.x)
    /\ call.out.sum >= Exp(0)

\* ----------------------------------------------------- allocation safety
Live(hp, a) == hp[a] # <<>>

AllocationSafe ==
  /\ \A v \in Vectors :
       (vec'[v].data_ # NULL) =>
         (/\ Live(heap', vec'[v].data_)
          /\ \A w \in Vectors \ {v} : vec'[w].data_ # vec'[v].data_)
  /\ (last'.op \in {"Resize", "Destroy", "Swap", "RemoveElement"}) =>
       (\A a \in Addrs :
          (Live(heap, a) /\ ~Live(heap', a)) =>
            (/\ a = vec[last'.v].data_
             /\ last'.op \in {"Resize", "Destroy"}
             /\ (last'.op = "Resize" => last'.n # vec[last'.v].dim_)))
  /\ (last'.op = "Resize" /\ last'.rt = "kCopyData" /\ last'.err = "ok"
      /\ vec[last'.v].data_ # NULL /\ last'.n # 0 /\ last'.n # vec[last'.v].dim_) =>
       (/\ ~Live(heap', vec[last'.v].data_)
        /\ vec'[last'.v].data_ # vec[last'.v].data_
        /\ Cardinality({a \in Addrs : Live(heap, a) /\ ~Live(heap', a)}) = 1
        /\ Cardinality({a \in Addrs : ~Live(heap, a) /\ Live(heap', a)}) = 1)
\* C25: over any sequence of Resize (any policy), Swap, RemoveElement and
\* Destroy on the owning vectors, after every call each non-NULL data_ is a
\* live allocation that no other vector points to; an allocation is freed
\* only as the data_ its owner had before a Destroy or a Resize to another
\* length, so that none is freed twice; and a Resize with kCopyData that
\* changes the length frees the previous buffer and moves to a fresh one.
C25_AllocationSafety == [][AllocationSafe]_vars
C25_Witness ==
  /\ last.op = "Resize" /\ last.rt = "kCopyData" /\ last.err = "ok"
  /\ last.v = "a" /\ last.pdim = 1 /\ last.n = 2
  /\ vec["a"].dim_ = 2 /\ vec["a"].data_ = 3
  /\ vec["b"].data_ = 2 /\ ~Live(heap, 1)

\* ------------------------------------------- AddRowSumMat, AddColSumMat
\* the sum of the column c of M, and of its row c
RECURSIVE ColumnSum(_, _, _)
ColumnSum(M, c, n) == IF n = 0 THEN 0 ELSE M.d[n][c] + ColumnSum(M, c, n - 1)
RECURSIVE RowSum(_, _, _)
RowSum(M, c, n) == IF n = 0 THEN 0 ELSE M.d[c][n] + RowSum(M, c, n - 1)

\* C26: AddRowSumMat(alpha, M, beta) sets this(c) = beta old(c) + alpha
\* times the sum of the column c of M, for every row count of M: none, less
\* than a block, a block, and more than a block; AddColSumMat does the same
\* with the rows of M and its column count.
C26_AddRowColSumMat ==
  call.op \in {"AddRowSumMat", "AddColSumMat"} =>
    /\ call.out.err = "ok"
    /\ call.out.data =
         Cells([c \in 1..Len(call.x) |->
                  call.beta * call.x[c] +
                  call.alpha * (IF call.op = "AddRowSumMat"
                                THEN ColumnSum(call.M, c, call.M.rows)
                                ELSE RowSum(call.M, c, call.M.cols))],
               call.s, call.pad)
====
